---- MODULE Spec2Model ----
(***************************************************************************)
(* A model of the cache warmer (hpowernl/cache-warmer, the variant with    *)
(* the adaptive 429 rate limiter): the SQLite state store, the staleness   *)
(* oracle, the rate limiter, the warming workers and runOnce.              *)
(*                                                                         *)
(* Time is a clock of ticks, TicksPerSec to the second.  time.Now() reads  *)
(* the clock; Format(time.RFC3339) keeps whole seconds only, so a stored   *)
(* timestamp is a count of seconds and parsing it gives the first tick of  *)
(* that second.  Durations are counted in ticks.                           *)
(***************************************************************************)
EXTENDS Integers, FiniteSets, Sequences, TLC

VARIABLES
    now,            \* the wall clock, in ticks
    warmed_url,     \* table warmed_url: url -> row
    meta,           \* table meta: key -> value
    flushPc,        \* position of the external `flush` command inside MarkFlush
    flushReason,    \* the reason argument of the MarkFlush call in progress
    flushedAt,      \* history: the timestamp text the latest MarkFlush wrote, if any
    swArgs,         \* oracle harness: the inputs of the ShouldWarm call
    swResult,       \* oracle harness: what ShouldWarm returned for swArgs
    rl,             \* the rateLimiter struct
    lastOp,         \* harnesses, history: the latest limiter or store call and the state before it
    cancelled,      \* ctx.Done() is closed
    rpc,            \* position of runLoop / runOnce
    pass,           \* history: number of runOnce calls started
    toCheck,        \* runOnce: uniqueURLs not yet put to ShouldWarm
    toWarm,         \* runOnce: toWarm not yet handed to a goroutine
    wk,             \* the worker goroutine of each page URL: locals and position
    budget429,      \* 429 responses the origin may still send
    hist,           \* history of the GETs, MarkWarmed calls and flushes, where kept
    col,            \* the sitemap collector of runOnce: seeds, call stack, seenSitemaps
    sitemap_seen,   \* table sitemap_seen: sitemap_url -> row
    load,           \* what the load source reports
    lp              \* runLoop: cfg.App.Loop, position, the running sleep

storeVars == <<warmed_url, meta, flushPc, flushReason, flushedAt>>
oracleVars == <<swArgs, swResult>>
limiterVars == <<rl, lastOp>>
envVars == <<col, sitemap_seen, load, lp>>
poolVars == <<cancelled, rpc, pass, toCheck, toWarm, wk, budget429, hist, envVars>>
vars == <<now, storeVars, oracleVars, limiterVars, poolVars>>

----------------------------------------------------------------------------
(* Bounds of the model *)

TicksPerSec == 2      \* clock resolution below the second
MaxTime == 2          \* the clock stops here
NumURLs == 2          \* page URLs known to the store specifications
MaxCount == 2         \* cap on warmed_count in the store specification
RewarmAfterSecs == 1  \* app.rewarm_after_hours, scaled down to seconds

URL == 1..NumURLs

\* time.Duration(cfg.App.RewarmAfterHours) * time.Hour, in ticks
RewarmAfter == RewarmAfterSecs * TicksPerSec

\* The rewarm intervals tried: the configured one and one no age reaches.
Intervals == {RewarmAfter, MaxTime + 1}

MaxConcurrency == 3   \* http.concurrency is drawn from 1..MaxConcurrency
CooldownSecs == 1     \* http.rate_limit_cooldown_seconds
RecoverAfterN == 2    \* http.rate_limit_recover_after
MaxHint == 3          \* the largest Retry-After value the origin sends, in seconds
NumPages == 2         \* page URLs the sitemaps list in the worker-pool specification
Retries == 1          \* http.retries
Max429 == 1           \* 429 responses the origin sends at most
MaxOK == 3            \* cap on consecutiveOK in the limiter specification
MaxStreak == 3        \* cap on the on429 calls in a row in the limiter specification
MaxPasses == 2        \* invocations of `cache-warmer once` in the re-run specification
CheckIntervalSecs == 1   \* load.check_interval_seconds
LoopIntervalSecs == 1 \* app.loop_interval_seconds
Max429Retries == 1    \* http.rate_limit_max_429_retries as the README documents it
Max429Storm == 2      \* 429 responses the origin sends in the 429-storm specification
MaxTimeStorm == 4     \* the clock stops here in the 429-storm specification

Page == 1..NumPages

(* Program constants *)
httpStatusOK == 200
httpStatusClientErr == 400
httpStatusSuccessMax == 399
httpStatusTooMany == 429

----------------------------------------------------------------------------
(* Timestamps as stored text *)

\* time.Now().UTC().Format(time.RFC3339): whole seconds, fraction dropped.
FormatRFC3339(t) == [ok |-> TRUE, sec |-> t \div TicksPerSec]

\* A stored text that time.Parse(time.RFC3339, ..) rejects.
BadTimeText == [ok |-> FALSE, sec |-> 0]

\* time.Parse(time.RFC3339, text): err == nil
ParseOK(text) == text.ok

\* time.Parse(time.RFC3339, text): the instant, in ticks
ParseRFC3339(text) == text.sec * TicksPerSec

(* SQL column values: a Go string bound as a parameter is stored as TEXT,  *)
(* the empty string included; NULL is a distinct value.                    *)
SqlNull == [isNull |-> TRUE, text |-> ""]
BindString(s) == [isNull |-> FALSE, text |-> s]

----------------------------------------------------------------------------
(* State store *)

NoTime == [some |-> FALSE, t |-> 0]
SomeTime(t) == [some |-> TRUE, t |-> t]

\* WarmDB.GetLastFlush: nil when the key is absent or its value does not parse.
GetLastFlush(m) ==
    IF "last_flush_utc" \notin DOMAIN m THEN NoTime
    ELSE IF ~ParseOK(m["last_flush_utc"]) THEN NoTime
    ELSE SomeTime(ParseRFC3339(m["last_flush_utc"]))

\* Mutant: the flush comparison dropped.
ShouldWarmNoFlush(db, m, t, url, rewarmAfter) ==
    IF url \notin DOMAIN db THEN TRUE
    ELSE IF ~ParseOK(db[url].last_warmed_utc) THEN TRUE
    ELSE t - ParseRFC3339(db[url].last_warmed_utc) >= rewarmAfter

\* Mutant: the age test strict.
ShouldWarmStrictAge(db, m, t, url, rewarmAfter) ==
    LET lastFlush == GetLastFlush(m) IN
    IF url \notin DOMAIN db THEN TRUE
    ELSE IF ~ParseOK(db[url].last_warmed_utc) THEN TRUE
    ELSE LET lastWarmed == ParseRFC3339(db[url].last_warmed_utc) IN
         IF lastFlush.some /\ lastWarmed < lastFlush.t THEN TRUE
         ELSE t - lastWarmed > rewarmAfter

\* WarmDB.ShouldWarm at clock reading t.
ShouldWarm(db, m, t, url, rewarmAfter) ==
    LET lastFlush == GetLastFlush(m) IN
    IF url \notin DOMAIN db THEN TRUE
    ELSE IF ~ParseOK(db[url].last_warmed_utc) THEN TRUE
    ELSE LET lastWarmed == ParseRFC3339(db[url].last_warmed_utc) IN
         IF lastFlush.some /\ lastWarmed < lastFlush.t THEN TRUE
         ELSE t - lastWarmed >= rewarmAfter

\* WarmDB.MarkWarmed at clock reading t: insert with count 1, else update.
\* Variant: INSERT OR REPLACE in place of the SELECT and the UPDATE.
MarkWarmedReplace(db, t, url, status, errorMsg) ==
    LET row == [last_warmed_utc |-> FormatRFC3339(t),
                last_status |-> status,
                last_error |-> BindString(errorMsg),
                warmed_count |-> 1]
    IN [u \in DOMAIN db \cup {url} |-> IF u = url THEN row ELSE db[u]]

MarkWarmed(db, t, url, status, errorMsg) ==
    LET row == [last_warmed_utc |-> FormatRFC3339(t),
                last_status |-> status,
                last_error |-> BindString(errorMsg),
                warmed_count |-> IF url \in DOMAIN db
                                 THEN db[url].warmed_count + 1 ELSE 1]
    IN [u \in DOMAIN db \cup {url} |-> IF u = url THEN row ELSE db[u]]

\* An upsert into meta.
MetaUpsert(m, k, v) == [x \in DOMAIN m \cup {k} |-> IF x = k THEN v ELSE m[x]]

\* WarmDB.Stats
Stats(db, m) ==
    [WarmedTotal |-> Cardinality(DOMAIN db),
     OKTotal |-> Cardinality({u \in DOMAIN db :
                     /\ db[u].last_error.isNull
                     /\ db[u].last_status >= httpStatusOK
                     /\ db[u].last_status <= httpStatusSuccessMax}),
     ErrTotal |-> Cardinality({u \in DOMAIN db :
                     \/ ~db[u].last_error.isNull
                     \/ db[u].last_status >= httpStatusClientErr
                     \/ db[u].last_status = 0}),
     LastFlushUTC |-> GetLastFlush(m)]

\* The outcomes runOnce hands to MarkWarmed: what warmOne returns.
Outcomes == { <<200, "">>, <<404, "HTTP 404">>, <<0, "error">> }

Reasons == {"", "test"}

----------------------------------------------------------------------------
(* Rate limiter *)

Max(a, b) == IF a >= b THEN a ELSE b

\* n * time.Second, in ticks
Seconds(n) == n * TicksPerSec

\* newRateLimiter(concurrency, cooldownSeconds, recoverAfter)
newRateLimiter(concurrency, cooldownSeconds, recoverAfter) ==
    [currentConcurrency |-> concurrency,
     minConcurrency |-> 1,
     maxConcurrency |-> concurrency,
     activeWorkers |-> 0,
     cooldownUntil |-> 0,
     consecutiveOK |-> 0,
     recoverAfter |-> recoverAfter,
     cooldownSeconds |-> cooldownSeconds]

\* The admission test of acquire at clock reading t.
CanAdmit(l, t) ==
    /\ ~(t < l.cooldownUntil)
    /\ l.activeWorkers < l.currentConcurrency

\* acquire, the admitting branch: rl.activeWorkers++
Admit(l) == [l EXCEPT !.activeWorkers = @ + 1]

\* rateLimiter.release (the Broadcast is part of the actions that use it)
release(l) == [l EXCEPT !.activeWorkers = @ - 1]

\* Mutant: the concurrency floor forgotten.
on429NoFloor(l, t, retryAfter) ==
    LET cooldown == Max(retryAfter, Seconds(l.cooldownSeconds))
    IN [l EXCEPT !.currentConcurrency = l.currentConcurrency \div 2,
                 !.consecutiveOK = 0,
                 !.cooldownUntil = t + cooldown]

\* Mutant: the cooldown floor forgotten.
on429NoCooldownFloor(l, t, retryAfter) ==
    LET half == l.currentConcurrency \div 2
        newConcurrency == IF half < l.minConcurrency THEN l.minConcurrency ELSE half
    IN [l EXCEPT !.currentConcurrency = newConcurrency,
                 !.consecutiveOK = 0,
                 !.cooldownUntil = t + retryAfter]

\* Variant: a 429 only ever extends the cooldown in force.
on429NeverShortens(l, t, retryAfter) ==
    LET half == l.currentConcurrency \div 2
        newConcurrency == IF half < l.minConcurrency THEN l.minConcurrency ELSE half
        cooldown == IF retryAfter < Seconds(l.cooldownSeconds)
                    THEN Seconds(l.cooldownSeconds) ELSE retryAfter
    IN [l EXCEPT !.currentConcurrency = newConcurrency,
                 !.consecutiveOK = 0,
                 !.cooldownUntil = Max(@, t + cooldown)]

\* Variant: the streak of successes survives a 429.
on429KeepStreak(l, t, retryAfter) ==
    LET half == l.currentConcurrency \div 2
        newConcurrency == IF half < l.minConcurrency THEN l.minConcurrency ELSE half
        cooldown == IF retryAfter < Seconds(l.cooldownSeconds)
                    THEN Seconds(l.cooldownSeconds) ELSE retryAfter
    IN [l EXCEPT !.currentConcurrency = newConcurrency,
                 !.cooldownUntil = t + cooldown]

\* rateLimiter.on429 at clock reading t
on429(l, t, retryAfter) ==
    LET half == l.currentConcurrency \div 2
        newConcurrency == IF half < l.minConcurrency THEN l.minConcurrency ELSE half
        cooldown == IF retryAfter < Seconds(l.cooldownSeconds)
                    THEN Seconds(l.cooldownSeconds) ELSE retryAfter
    IN [l EXCEPT !.currentConcurrency = newConcurrency,
                 !.consecutiveOK = 0,
                 !.cooldownUntil = t + cooldown]

\* Variant: the test against maxConcurrency forgotten.
onSuccessNoCap(l) ==
    LET n == l.consecutiveOK + 1 IN
    IF n >= l.recoverAfter
    THEN [l EXCEPT !.currentConcurrency = @ + 1, !.consecutiveOK = 0]
    ELSE [l EXCEPT !.consecutiveOK = n]

\* rateLimiter.onSuccess
onSuccess(l) ==
    LET n == l.consecutiveOK + 1 IN
    IF n >= l.recoverAfter /\ l.currentConcurrency < l.maxConcurrency
    THEN [l EXCEPT !.currentConcurrency = @ + 1, !.consecutiveOK = 0]
    ELSE [l EXCEPT !.consecutiveOK = n]

(* A Retry-After header value: empty (absent or blank), a decimal integer  *)
(* n, an RFC 1123 date falling on second n, or any other text.             *)
HdrEmpty == [kind |-> "empty", n |-> 0]
HdrInt(n) == [kind |-> "int", n |-> n]
HdrDate(n) == [kind |-> "date", n |-> n]
HdrJunk == [kind |-> "junk", n |-> 0]

\* parseRetryAfter(hdr, defaultSec) at clock reading t
parseRetryAfter(hdr, defaultSec, t) ==
    IF hdr.kind = "empty" THEN Seconds(defaultSec)
    ELSE IF hdr.kind = "int" /\ hdr.n >= 0 THEN Seconds(hdr.n)
    ELSE IF hdr.kind = "date" /\ Seconds(hdr.n) - t > 0 THEN Seconds(hdr.n) - t
    ELSE Seconds(defaultSec)

\* The Retry-After headers the origin may send.
Headers ==
    {HdrEmpty, HdrJunk}
    \cup {HdrInt(n) : n \in {0 - 1, 0, CooldownSecs, MaxHint}}
    \cup {HdrDate(n) : n \in {0, MaxHint}}

(* A worker goroutine of runOnce: its position, the locals of warmOne and   *)
(* of acquire, and history fields (holds, acquired, marks).                *)
IdleWorker ==
    [pc |-> "idle",          \* idle: no goroutine for this URL in this pass
     reacq |-> FALSE,         \* in acquire called from warmOne after a 429
     attempt |-> 0,
     wake |-> 0,              \* when the timer of the current sleep fires
     retryAfter429 |-> 0,
     status |-> 0,
     errMsg |-> "",
     slotReleased |-> FALSE,
     holds |-> FALSE,         \* history: holds a limiter slot
     acquired |-> FALSE,      \* history: the initial acquire returned nil
     marks |-> 0,             \* history: MarkWarmed calls in this pass
     gated |-> FALSE]         \* history: waitForLoad has returned nil

EmptyTable == [x \in {} |-> 0]

(* History of a run, kept by the re-run specification only: the URLs a GET  *)
(* was issued for, the tick of each URL's latest MarkWarmed, and, for the   *)
(* latest flush, the pass count at the flush, the URLs fetched before it    *)
(* and the URLs fetched by the first pass started after it.                 *)
HistOff == [on |-> FALSE]

HistInit ==
    [on |-> TRUE, fetched |-> {}, markedAt |-> EmptyTable,
     flushPass |-> -1, fetchedBefore |-> {}, refetched |-> {}]

\* One more event of kind f for u, where the history counts them.
CountIn(h, f, u) ==
    IF f \in DOMAIN h THEN [h EXCEPT ![f][u] = @ + 1] ELSE h

\* The counting history: GETs issued and 429 answers got, for each URL of W
HistCount(W) == [on |-> FALSE, gets |-> [w \in W |-> 0], n429 |-> [w \in W |-> 0]]

\* The collector's history: calls of fetchBytes for each sitemap URL of S in
\* the current runOnce
HistFetch(S) == [on |-> FALSE, fetches |-> [sm \in S |-> 0]]

\* A runOnce begins: its count of fetches starts at zero.
NewCollection(h) ==
    IF "fetches" \in DOMAIN h THEN [h EXCEPT !.fetches = [sm \in DOMAIN @ |-> 0]] ELSE h

\* client.Do(req) is called for u in pass p
ObserveGet(h, u, p) ==
    LET c == CountIn(h, "gets", u) IN
    IF ~c.on THEN c
    ELSE [c EXCEPT !.fetched = @ \cup {u},
                   !.refetched = IF h.flushPass >= 0 /\ p = h.flushPass + 1
                                 THEN @ \cup {u} ELSE @]

\* MarkWarmed(u, ..) runs at tick t
ObserveMark(h, u, t) ==
    IF ~h.on THEN h
    ELSE [h EXCEPT !.markedAt =
            [x \in DOMAIN h.markedAt \cup {u} |->
                IF x = u THEN t ELSE h.markedAt[x]]]

\* MarkFlush writes last_flush_utc while p passes have started
ObserveFlush(h, p) ==
    IF ~h.on THEN h
    ELSE [h EXCEPT !.flushPass = p, !.fetchedBefore = h.fetched, !.refetched = {}]

\* No collection under way, an empty sitemap_seen table, the load at or
\* under load.max_load.
ColIdle == [pc |-> "off"]

\* runLoop is not running: `cache-warmer once` calls runOnce itself.
LoopIdle == [pc |-> "off"]

EnvIdle ==
    /\ col = ColIdle
    /\ sitemap_seen = EmptyTable
    /\ load = "low"
    /\ lp = LoopIdle

PoolIdle ==
    /\ cancelled = FALSE
    /\ rpc = "off"
    /\ pass = 0
    /\ toCheck = <<>>
    /\ toWarm = <<>>
    /\ wk = [w \in Page |-> IdleWorker]
    /\ budget429 = 0
    /\ hist = HistOff
    /\ EnvIdle

NoOp == [op |-> "none"]

LimiterIdle ==
    /\ rl = newRateLimiter(1, CooldownSecs, RecoverAfterN)
    /\ lastOp = NoOp

----------------------------------------------------------------------------
(* Actions of the store specification *)

\* The clock advances.
Tick ==
    /\ now < MaxTime
    /\ now' = now + 1
    /\ UNCHANGED <<storeVars, oracleVars, limiterVars, poolVars>>

\* History: the number of MarkWarmed calls made for each URL, u's one more.
CountCall(lo, u) ==
    LET calls == IF "calls" \in DOMAIN lo THEN lo.calls ELSE EmptyTable
    IN [x \in DOMAIN calls \cup {u} |->
           (IF x \in DOMAIN calls THEN calls[x] ELSE 0) + (IF x = u THEN 1 ELSE 0)]

\* A call MarkWarmed(u, status, errorMsg).
MarkWarmedCall ==
    \E u \in URL, o \in Outcomes :
        /\ u \in DOMAIN warmed_url => warmed_url[u].warmed_count < MaxCount
        /\ warmed_url' = MarkWarmed(warmed_url, now, u, o[1], o[2])
        /\ lastOp' = [op |-> "MarkWarmed", t |-> now, url |-> u, status |-> o[1],
                      errorMsg |-> o[2], calls |-> CountCall(lastOp, u)]
        /\ UNCHANGED <<now, meta, flushPc, flushReason, flushedAt, oracleVars, rl, poolVars>>

\* MarkFlush(reason), first statement: the upsert of last_flush_utc.
MarkFlushTime ==
    \E reason \in Reasons :
        /\ flushPc = "idle"
        /\ meta' = MetaUpsert(meta, "last_flush_utc", FormatRFC3339(now))
        /\ flushedAt' = SomeTime(ParseRFC3339(FormatRFC3339(now)))
        /\ flushReason' = reason
        /\ flushPc' = "reason"
        /\ hist' = ObserveFlush(hist, pass)
        /\ UNCHANGED <<now, warmed_url, oracleVars, limiterVars, cancelled, rpc,
                       pass, toCheck, toWarm, wk, budget429, envVars>>

\* MarkFlush(reason), second statement: the upsert of last_flush_reason,
\* skipped when reason is empty.
MarkFlushReason ==
    /\ flushPc = "reason"
    /\ meta' = IF flushReason # ""
               THEN MetaUpsert(meta, "last_flush_reason", flushReason)
               ELSE meta
    /\ flushPc' = "idle"
    /\ flushReason' = ""
    /\ UNCHANGED <<now, warmed_url, flushedAt, oracleVars, limiterVars, poolVars>>

StoreInit ==
    /\ warmed_url = EmptyTable
    /\ meta = EmptyTable
    /\ flushPc = "idle"
    /\ flushReason = ""
    /\ flushedAt = NoTime

OracleIdle ==
    /\ swArgs = [called |-> FALSE]
    /\ swResult = FALSE

InitStore ==
    /\ now = 0
    /\ StoreInit
    /\ OracleIdle
    /\ LimiterIdle
    /\ PoolIdle

NextStore ==
    \/ Tick
    \/ MarkWarmedCall
    \/ MarkFlushTime
    \/ MarkFlushReason

SpecStore == InitStore /\ [][NextStore]_vars

----------------------------------------------------------------------------
(* The limiter driven call by call *)

\* History carried from call to call once a 429 has come: the cap the latest
\* on429 left (base) and the onSuccess calls since (oks).
SinceLast429(lo) ==
    IF "oks" \in DOMAIN lo THEN [base |-> lo.base, oks |-> lo.oks] ELSE <<>>

InitLimiter ==
    /\ now = 0
    /\ StoreInit
    /\ OracleIdle
    /\ \E c \in 1..MaxConcurrency : rl = newRateLimiter(c, CooldownSecs, RecoverAfterN)
    /\ lastOp = NoOp
    /\ PoolIdle

\* acquire returning nil
AcquireCall ==
    /\ CanAdmit(rl, now)
    /\ rl' = Admit(rl)
    /\ lastOp' = [op |-> "acquire", t |-> now, before |-> rl] @@ SinceLast429(lastOp)
    /\ UNCHANGED <<now, storeVars, oracleVars, poolVars>>

\* release by a caller that holds a slot
ReleaseCall ==
    /\ rl.activeWorkers > 0
    /\ rl' = release(rl)
    /\ lastOp' = [op |-> "release", t |-> now, before |-> rl] @@ SinceLast429(lastOp)
    /\ UNCHANGED <<now, storeVars, oracleVars, poolVars>>

\* on429(parseRetryAfter(hdr, cooldownSec)) as warmOne calls it
On429Call ==
    \E hdr \in Headers :
        LET ra == parseRetryAfter(hdr, rl.cooldownSeconds, now) IN
        /\ lastOp.op = "on429" => lastOp.streak < MaxStreak
        /\ rl' = on429(rl, now, ra)
        /\ lastOp' = [op |-> "on429", t |-> now, before |-> rl, hdr |-> hdr,
                      retryAfter |-> ra,
                      streak |-> IF lastOp.op = "on429" THEN lastOp.streak + 1 ELSE 1,
                      base |-> rl'.currentConcurrency, oks |-> 0]
        /\ UNCHANGED <<now, storeVars, oracleVars, poolVars>>

\* onSuccess
OnSuccessCall ==
    /\ rl.consecutiveOK < MaxOK
    /\ rl' = onSuccess(rl)
    /\ lastOp' = [op |-> "onSuccess", t |-> now, before |-> rl]
                   @@ (IF "oks" \in DOMAIN lastOp
                       THEN [base |-> lastOp.base, oks |-> lastOp.oks + 1]
                       ELSE <<>>)
    /\ UNCHANGED <<now, storeVars, oracleVars, poolVars>>

NextLimiter ==
    \/ Tick
    \/ AcquireCall
    \/ ReleaseCall
    \/ On429Call
    \/ OnSuccessCall

SpecLimiter == InitLimiter /\ [][NextLimiter]_vars

----------------------------------------------------------------------------
(* The worker pool: runOnce and the goroutine it starts for each URL *)

\* Variant: the broadcast wakes nobody.
BroadcastLost(f) == f

\* rl.cond.Broadcast(): every goroutine blocked in rl.cond.Wait() wakes and
\* goes back to the head of acquire's loop.
Broadcast(f) ==
    [x \in DOMAIN f |->
        IF f[x].pc = "acq_wait" THEN [f[x] EXCEPT !.pc = "acquire"] ELSE f[x]]

\* ctx.Err().Error()
CtxErr == "context canceled"

\* err.Error() of a failed client.Do or body read
DoErr == "Get: error"

\* warmOne returns (status, errMsg, slotReleased)
Return(r, status, errMsg, slotReleased) ==
    [r EXCEPT !.pc = "mark", !.status = status, !.errMsg = errMsg,
              !.slotReleased = slotReleased, !.wake = 0, !.retryAfter429 = 0,
              !.attempt = 0]

\* Variant: a failed re-acquire ends the goroutine with no MarkWarmed.
AcquireFailedNoMark(r) ==
    [IdleWorker EXCEPT !.pc = "done", !.acquired = r.acquired]

\* acquire returned ctx.Err(): the goroutine of runOnce logs WARM SKIP and
\* returns; warmOne, re-acquiring after a 429, returns (0, err, true).
AcquireFailed(r) ==
    IF r.reacq
    THEN Return(r, 0, CtxErr, TRUE)
    ELSE [IdleWorker EXCEPT !.pc = "done"]

\* Variant: acquire does not look at cooldownUntil.
acquireNoCooldown(w) ==
    /\ wk[w].pc = "acquire"
    /\ IF cancelled THEN
           /\ wk' = [wk EXCEPT ![w] = AcquireFailed(@)]
           /\ rl' = rl
       ELSE IF rl.activeWorkers < rl.currentConcurrency THEN
           /\ wk' = [wk EXCEPT ![w] = [@ EXCEPT
                        !.pc = "loop",
                        !.reacq = FALSE, !.holds = TRUE, !.acquired = TRUE]]
           /\ rl' = Admit(rl)
       ELSE
           /\ wk' = [wk EXCEPT ![w] = [@ EXCEPT !.pc = "acq_wait"]]
           /\ rl' = rl
    /\ UNCHANGED <<now, storeVars, oracleVars, lastOp, cancelled, rpc, pass,
                   toCheck, toWarm, budget429, hist, envVars>>

\* Variant: acquire admits one goroutine more than the cap.
acquireOverCap(w) ==
    /\ wk[w].pc = "acquire"
    /\ IF cancelled THEN
           /\ wk' = [wk EXCEPT ![w] = AcquireFailed(@)]
           /\ rl' = rl
       ELSE IF now < rl.cooldownUntil THEN
           /\ wk' = [wk EXCEPT ![w] = [@ EXCEPT !.pc = "acq_sleep",
                                                !.wake = rl.cooldownUntil]]
           /\ rl' = rl
       ELSE IF rl.activeWorkers <= rl.currentConcurrency THEN
           /\ wk' = [wk EXCEPT ![w] = [@ EXCEPT
                        !.pc = "loop",
                        !.reacq = FALSE, !.holds = TRUE, !.acquired = TRUE]]
           /\ rl' = Admit(rl)
       ELSE
           /\ wk' = [wk EXCEPT ![w] = [@ EXCEPT !.pc = "acq_wait"]]
           /\ rl' = rl
    /\ UNCHANGED <<now, storeVars, oracleVars, lastOp, cancelled, rpc, pass,
                   toCheck, toWarm, budget429, hist, envVars>>

\* rateLimiter.acquire, one turn of its loop with the mutex held
acquire(w) ==
    /\ wk[w].pc = "acquire"
    /\ IF cancelled THEN
           /\ wk' = [wk EXCEPT ![w] = AcquireFailed(@)]
           /\ rl' = rl
       ELSE IF now < rl.cooldownUntil THEN
           /\ wk' = [wk EXCEPT ![w] = [@ EXCEPT !.pc = "acq_sleep",
                                                !.wake = rl.cooldownUntil]]
           /\ rl' = rl
       ELSE IF rl.activeWorkers < rl.currentConcurrency THEN
           /\ wk' = [wk EXCEPT ![w] = [@ EXCEPT
                        !.pc = "loop",
                        !.reacq = FALSE, !.holds = TRUE, !.acquired = TRUE]]
           /\ rl' = Admit(rl)
       ELSE
           /\ wk' = [wk EXCEPT ![w] = [@ EXCEPT !.pc = "acq_wait"]]
           /\ rl' = rl
    /\ UNCHANGED <<now, storeVars, oracleVars, lastOp, cancelled, rpc, pass,
                   toCheck, toWarm, budget429, hist, envVars>>

\* acquire sleeping out the cooldown: the timer fires, back to the loop head
AcqSleepTimer(w) ==
    /\ wk[w].pc = "acq_sleep"
    /\ now >= wk[w].wake
    /\ wk' = [wk EXCEPT ![w] = [@ EXCEPT !.pc = "acquire", !.wake = 0]]
    /\ UNCHANGED <<now, storeVars, oracleVars, limiterVars, cancelled, rpc, pass,
                   toCheck, toWarm, budget429, hist, envVars>>

\* acquire sleeping out the cooldown: ctx.Done() wins the select
AcqSleepCancelled(w) ==
    /\ wk[w].pc = "acq_sleep"
    /\ cancelled
    /\ wk' = [wk EXCEPT ![w] = AcquireFailed(@)]
    /\ UNCHANGED <<now, storeVars, oracleVars, limiterVars, cancelled, rpc, pass,
                   toCheck, toWarm, budget429, hist, envVars>>

\* Variant: warmOne never consults the load.
LoopTopNoGate(w) ==
    /\ wk[w].pc = "loop"
    /\ wk' = [wk EXCEPT ![w] = IF cancelled
                               THEN Return(@, 0, CtxErr, FALSE)
                               ELSE [@ EXCEPT !.pc = "get", !.attempt = 1,
                                              !.gated = TRUE]]
    /\ hist' = IF cancelled THEN hist ELSE ObserveGet(hist, w, pass)
    /\ UNCHANGED <<now, storeVars, oracleVars, limiterVars, cancelled, rpc, pass,
                   toCheck, toWarm, budget429, envVars>>

\* warmOne holding a slot, up to its first request. On the way in: the
\* MinDelayMS sleep and one turn of waitForLoad, which returns ctx.Err() as
\* the head of the outer loop does, sleeps the check interval when the load
\* read is above max_load and returns nil otherwise. Then, also after a
\* re-acquire, the head of the outer loop and the first request.
LoopTop(w) ==
    /\ wk[w].pc = "loop"
    /\ wk' = [wk EXCEPT ![w] =
                IF cancelled
                THEN Return(@, 0, CtxErr, FALSE)
                ELSE IF ~wk[w].gated /\ load = "high"
                THEN [@ EXCEPT !.pc = "load_sleep",
                               !.wake = now + Seconds(CheckIntervalSecs)]
                ELSE [@ EXCEPT !.pc = "get", !.attempt = 1, !.gated = TRUE]]
    /\ hist' = IF wk'[w].pc = "get" THEN ObserveGet(hist, w, pass) ELSE hist
    /\ UNCHANGED <<now, storeVars, oracleVars, limiterVars, cancelled, rpc, pass,
                   toCheck, toWarm, budget429, envVars>>

\* warmOne in waitForLoad: the check interval is over, the load is read again
LoadSleepTimer(w) ==
    /\ wk[w].pc = "load_sleep"
    /\ now >= wk[w].wake
    /\ wk' = [wk EXCEPT ![w] = [@ EXCEPT !.pc = "loop", !.wake = 0]]
    /\ UNCHANGED <<now, storeVars, oracleVars, limiterVars, cancelled, rpc, pass,
                   toCheck, toWarm, budget429, hist, envVars>>

\* warmOne in waitForLoad: ctx.Done() wins the select
LoadSleepCancelled(w) ==
    /\ wk[w].pc = "load_sleep"
    /\ cancelled
    /\ wk' = [wk EXCEPT ![w] = Return(@, 0, CtxErr, FALSE)]
    /\ UNCHANGED <<now, storeVars, oracleVars, limiterVars, cancelled, rpc, pass,
                   toCheck, toWarm, budget429, hist, envVars>>

\* Variant: the bound of the retry loop is off by one.
FailedAttemptOneMore(r, status, errMsg) ==
    IF r.attempt > Retries + 1
    THEN Return(r, status, errMsg, FALSE)
    ELSE [r EXCEPT !.pc = "backoff"]

\* A failed attempt that is not the last one sleeps the backoff; the last one
\* leaves the retry loop with the outcome given.
FailedAttempt(r, status, errMsg) ==
    IF r.attempt >= Retries + 1
    THEN Return(r, status, errMsg, FALSE)
    ELSE [r EXCEPT !.pc = "backoff"]

\* warmOne: the response is 2xx/3xx and its body is drained
GetOK(w) ==
    /\ wk[w].pc = "get"
    /\ ~cancelled
    /\ rl' = onSuccess(rl)
    /\ wk' = [wk EXCEPT ![w] = Return(@, 200, "", FALSE)]
    /\ UNCHANGED <<now, storeVars, oracleVars, lastOp, cancelled, rpc, pass,
                   toCheck, toWarm, budget429, hist, envVars>>

\* warmOne: the response is >= 400 and not 429
GetHTTPError(w) ==
    /\ wk[w].pc = "get"
    /\ ~cancelled
    /\ wk' = [wk EXCEPT ![w] = FailedAttempt(@, 404, "HTTP 404")]
    /\ UNCHANGED <<now, storeVars, oracleVars, limiterVars, cancelled, rpc, pass,
                   toCheck, toWarm, budget429, hist, envVars>>

\* Status codes an origin can put on its status line besides 200, 404 and
\* 429: client.Do hands a 101 to its caller, follows no redirect that has no
\* Location, and accepts any three digits.
OtherStatuses == {101, 302, 999}

\* fmt.Errorf("HTTP %d", st).Error() for the statuses above
StatusErrText(st) == IF st = 999 THEN "HTTP 999" ELSE "HTTP"

\* warmOne: the response has one of the other statuses; below 400 it is a
\* success, from 400 on a failed attempt
GetOtherStatus(w) ==
    /\ wk[w].pc = "get"
    /\ ~cancelled
    /\ \E st \in OtherStatuses :
          IF st >= httpStatusClientErr
          THEN /\ rl' = rl
               /\ wk' = [wk EXCEPT ![w] = FailedAttempt(@, st, StatusErrText(st))]
          ELSE /\ rl' = onSuccess(rl)
               /\ wk' = [wk EXCEPT ![w] = Return(@, st, "", FALSE)]
    /\ UNCHANGED <<now, storeVars, oracleVars, lastOp, cancelled, rpc, pass,
                   toCheck, toWarm, budget429, hist, envVars>>

\* warmOne: client.Do or the body read fails
GetTransportError(w) ==
    /\ wk[w].pc = "get"
    /\ wk' = [wk EXCEPT ![w] = FailedAttempt(@, 0, DoErr)]
    /\ UNCHANGED <<now, storeVars, oracleVars, limiterVars, cancelled, rpc, pass,
                   toCheck, toWarm, budget429, hist, envVars>>

\* The Retry-After headers the origin sends to the worker pool.
PoolHeaders == {HdrEmpty, HdrInt(0)}

\* Variant: a 429 is the URL's outcome, as a status >= 400 on the last attempt.
Get429AsHTTPError(w) ==
    /\ wk[w].pc = "get"
    /\ ~cancelled
    /\ budget429 > 0
    /\ rl' = rl
    /\ wk' = [wk EXCEPT ![w] = Return(@, 429, "HTTP 429", FALSE)]
    /\ budget429' = budget429 - 1
    /\ UNCHANGED <<now, storeVars, oracleVars, lastOp, cancelled, rpc, pass,
                   toCheck, toWarm, hist, envVars>>

\* warmOne: the response is 429: on429(parseRetryAfter(..)), got429, break
Get429(w) ==
    /\ wk[w].pc = "get"
    /\ ~cancelled
    /\ budget429 > 0
    /\ \E hdr \in PoolHeaders :
         LET ra == parseRetryAfter(hdr, CooldownSecs, now) IN
         /\ rl' = on429(rl, now, ra)
         /\ wk' = Broadcast([wk EXCEPT ![w] = [@ EXCEPT !.pc = "release429",
                                                        !.retryAfter429 = ra,
                                                        !.attempt = 0]])
    /\ budget429' = budget429 - 1
    /\ hist' = CountIn(hist, "n429", w)
    /\ UNCHANGED <<now, storeVars, oracleVars, lastOp, cancelled, rpc, pass,
                   toCheck, toWarm, envVars>>

\* warmOne: time.Sleep(backoff) is over, the next attempt's request
BackoffDone(w) ==
    /\ wk[w].pc = "backoff"
    /\ wk' = [wk EXCEPT ![w] = [@ EXCEPT !.pc = "get", !.attempt = @ + 1]]
    /\ hist' = ObserveGet(hist, w, pass)
    /\ UNCHANGED <<now, storeVars, oracleVars, limiterVars, cancelled, rpc, pass,
                   toCheck, toWarm, budget429, envVars>>

\* Variant: warmOne goes to its cooldown without c.rl.release().
Release429SlotKept(w) ==
    /\ wk[w].pc = "release429"
    /\ rl' = rl
    /\ wk' = [wk EXCEPT ![w] = [@ EXCEPT !.pc = "cool429",
                                         !.holds = FALSE,
                                         !.wake = now + wk[w].retryAfter429,
                                         !.retryAfter429 = 0]]
    /\ UNCHANGED <<now, storeVars, oracleVars, lastOp, cancelled, rpc, pass,
                   toCheck, toWarm, budget429, hist, envVars>>

\* warmOne after a 429: c.rl.release(), then the cooldown select begins
Release429(w) ==
    /\ wk[w].pc = "release429"
    /\ rl' = release(rl)
    /\ wk' = Broadcast([wk EXCEPT ![w] = [@ EXCEPT !.pc = "cool429",
                                                   !.holds = FALSE,
                                                   !.wake = now + wk[w].retryAfter429,
                                                   !.retryAfter429 = 0]])
    /\ UNCHANGED <<now, storeVars, oracleVars, lastOp, cancelled, rpc, pass,
                   toCheck, toWarm, budget429, hist, envVars>>

\* Variant: after the cooldown the retry loop restarts with no slot taken.
Cool429TimerNoAcquire(w) ==
    /\ wk[w].pc = "cool429"
    /\ now >= wk[w].wake
    /\ wk' = [wk EXCEPT ![w] = [@ EXCEPT !.pc = "loop", !.wake = 0]]
    /\ UNCHANGED <<now, storeVars, oracleVars, limiterVars, cancelled, rpc, pass,
                   toCheck, toWarm, budget429, hist, envVars>>

\* warmOne after a 429: time.After(retryAfter429) fires, then c.rl.acquire(ctx)
Cool429Timer(w) ==
    /\ wk[w].pc = "cool429"
    /\ now >= wk[w].wake
    /\ wk' = [wk EXCEPT ![w] = [@ EXCEPT !.pc = "acquire", !.reacq = TRUE,
                                         !.wake = 0]]
    /\ UNCHANGED <<now, storeVars, oracleVars, limiterVars, cancelled, rpc, pass,
                   toCheck, toWarm, budget429, hist, envVars>>

\* warmOne after a 429: ctx.Done() wins the cooldown select
Cool429CancelledKeeps429(w) ==
    /\ wk[w].pc = "cool429"
    /\ cancelled
    /\ wk' = [wk EXCEPT ![w] = Return(@, 429, "HTTP 429", TRUE)]
    /\ UNCHANGED <<now, storeVars, oracleVars, limiterVars, cancelled, rpc, pass,
                   toCheck, toWarm, budget429, hist, envVars>>

Cool429Cancelled(w) ==
    /\ wk[w].pc = "cool429"
    /\ cancelled
    /\ wk' = [wk EXCEPT ![w] = Return(@, 0, CtxErr, TRUE)]
    /\ UNCHANGED <<now, storeVars, oracleVars, limiterVars, cancelled, rpc, pass,
                   toCheck, toWarm, budget429, hist, envVars>>

\* Variant: the goroutine gives its slot back before it records the outcome.
MarkStepAfterRelease(w) ==
    /\ wk[w].pc = "mark"
    /\ warmed_url' = MarkWarmed(warmed_url, now, w, wk[w].status, wk[w].errMsg)
    /\ rl' = IF wk[w].holds THEN release(rl) ELSE rl
    /\ wk' = [wk EXCEPT ![w] = [@ EXCEPT !.pc = "defer", !.marks = @ + 1,
                                         !.holds = FALSE, !.slotReleased = TRUE]]
    /\ hist' = ObserveMark(hist, w, now)
    /\ UNCHANGED <<now, meta, flushPc, flushReason, flushedAt, oracleVars,
                   lastOp, cancelled, rpc, pass, toCheck, toWarm, budget429, envVars>>

\* The goroutine of runOnce: c.db.MarkWarmed(u, status, errMsg)
MarkStep(w) ==
    /\ wk[w].pc = "mark"
    /\ warmed_url' = MarkWarmed(warmed_url, now, w, wk[w].status, wk[w].errMsg)
    /\ wk' = [wk EXCEPT ![w] = [@ EXCEPT !.pc = "defer", !.marks = @ + 1]]
    /\ hist' = ObserveMark(hist, w, now)
    /\ UNCHANGED <<now, meta, flushPc, flushReason, flushedAt, oracleVars,
                   limiterVars, cancelled, rpc, pass, toCheck, toWarm, budget429, envVars>>

\* The goroutine has returned: its locals are gone, the history stays.
Finished(r) ==
    [IdleWorker EXCEPT !.pc = "done", !.acquired = r.acquired, !.marks = r.marks]

\* Variant: the deferred release runs whatever warmOne says of the slot.
DeferReleaseAlways(w) ==
    /\ wk[w].pc = "defer"
    /\ rl' = release(rl)
    /\ wk' = Broadcast([wk EXCEPT ![w] = Finished(@)])
    /\ UNCHANGED <<now, storeVars, oracleVars, lastOp, cancelled, rpc, pass,
                   toCheck, toWarm, budget429, hist, envVars>>

\* The goroutine of runOnce: the deferred release unless slotReleased, wg.Done
DeferRelease(w) ==
    /\ wk[w].pc = "defer"
    /\ IF wk[w].slotReleased
       THEN /\ rl' = rl
            /\ wk' = [wk EXCEPT ![w] = Finished(@)]
       ELSE /\ rl' = release(rl)
            /\ wk' = Broadcast([wk EXCEPT ![w] = Finished(@)])
    /\ UNCHANGED <<now, storeVars, oracleVars, lastOp, cancelled, rpc, pass,
                   toCheck, toWarm, budget429, hist, envVars>>

\* runOnce's de-duplication: first occurrences in order, "" (0) skipped
RECURSIVE Dedupe(_, _)
Dedupe(list, seen) ==
    IF list = <<>> THEN <<>>
    ELSE IF Head(list) = 0 \/ Head(list) \in seen THEN Dedupe(Tail(list), seen)
    ELSE <<Head(list)>> \o Dedupe(Tail(list), seen \cup {Head(list)})

AllPages == [i \in 1..NumPages |-> i]

\* What the sitemaps may list: every page, also with a repeated or an empty loc.
PoolPageLists == {AllPages, AllPages \o <<1>>, <<0, 1>> \o AllPages}

\* runOnce, from its entry to the de-duplicated list: the collection proper is
\* taken as one step here.
RunOnceCollect(lists) ==
    /\ rpc = "start"
    /\ pass' = pass + 1
    /\ wk' = [w \in DOMAIN wk |-> IdleWorker]
    /\ toWarm' = <<>>
    /\ IF cancelled
       THEN /\ rpc' = "returned"
            /\ toCheck' = <<>>
       ELSE /\ rpc' = "filter"
            /\ \E list \in lists : toCheck' = Dedupe(list, {})
    /\ UNCHANGED <<now, storeVars, oracleVars, limiterVars, cancelled, budget429, hist, envVars>>

\* runOnce: one turn of the staleness filter
FilterStep ==
    /\ rpc = "filter"
    /\ IF toCheck = <<>>
       THEN /\ rpc' = "spawn"
            /\ UNCHANGED <<toCheck, toWarm, hist, envVars>>
       ELSE /\ rpc' = rpc
            /\ toCheck' = Tail(toCheck)
            /\ toWarm' = IF ShouldWarm(warmed_url, meta, now, Head(toCheck), RewarmAfter)
                         THEN Append(toWarm, Head(toCheck))
                         ELSE toWarm
    /\ UNCHANGED <<now, storeVars, oracleVars, limiterVars, cancelled, pass, wk,
                   budget429, hist, envVars>>

\* runOnce: one turn of the spawning loop
SpawnStep ==
    /\ rpc = "spawn"
    /\ IF toWarm = <<>> \/ cancelled
       THEN /\ rpc' = "wait"
            /\ UNCHANGED <<toWarm, wk>>
       ELSE /\ rpc' = rpc
            /\ toWarm' = Tail(toWarm)
            /\ wk' = [wk EXCEPT ![Head(toWarm)] = [IdleWorker EXCEPT !.pc = "acquire"]]
    /\ UNCHANGED <<now, storeVars, oracleVars, limiterVars, cancelled, pass,
                   toCheck, budget429, hist, envVars>>

\* runOnce: wg.Wait() returns, runOnce returns
WaitStep ==
    /\ rpc = "wait"
    /\ \A w \in DOMAIN wk : wk[w].pc \in {"idle", "done"}
    /\ rpc' = "returned"
    /\ UNCHANGED <<now, storeVars, oracleVars, limiterVars, cancelled, pass,
                   toCheck, toWarm, wk, budget429, hist, envVars>>

\* SIGINT or SIGTERM: cancel()
Cancel ==
    /\ ~cancelled
    /\ cancelled' = TRUE
    /\ UNCHANGED <<now, storeVars, oracleVars, limiterVars, rpc, pass, toCheck,
                   toWarm, wk, budget429, hist, envVars>>

WorkerStep(w) ==
    \/ acquire(w)
    \/ LoopTop(w)
    \/ GetOK(w)
    \/ GetHTTPError(w)
    \/ GetTransportError(w)
    \/ BackoffDone(w)
    \/ MarkStep(w)
    \/ DeferRelease(w)

Worker429Step(w) ==
    \/ Get429(w)
    \/ AcqSleepTimer(w)
    \/ AcqSleepCancelled(w)
    \/ Release429(w)
    \/ Cool429Timer(w)
    \/ Cool429Cancelled(w)

(* `cache-warmer once`: one runOnce over NumPages pages against an origin  *)
(* that answers 200, 404, 429 or not at all, with the signal handler.      *)
Init ==
    /\ now = 0
    /\ StoreInit
    /\ OracleIdle
    /\ rl = newRateLimiter(MaxConcurrency, CooldownSecs, RecoverAfterN)
    /\ lastOp = NoOp
    /\ cancelled = FALSE
    /\ rpc = "start"
    /\ pass = 0
    /\ toCheck = <<>>
    /\ toWarm = <<>>
    /\ wk = [w \in Page |-> IdleWorker]
    /\ budget429 = Max429
    /\ hist = HistOff
    /\ EnvIdle

Next ==
    \/ Tick
    \/ Cancel
    \/ RunOnceCollect(PoolPageLists)
    \/ FilterStep
    \/ SpawnStep
    \/ WaitStep
    \/ \E w \in DOMAIN wk : WorkerStep(w)
    \/ \E w \in DOMAIN wk : Worker429Step(w)

Spec == Init /\ [][Next]_vars

(* The same run with as many page URLs as the limiter admits at once.      *)
SaturatingPages == [i \in 1..MaxConcurrency |-> i]

InitSaturated ==
    /\ now = 0
    /\ StoreInit
    /\ OracleIdle
    /\ rl = newRateLimiter(MaxConcurrency, CooldownSecs, RecoverAfterN)
    /\ lastOp = NoOp
    /\ cancelled = FALSE
    /\ rpc = "start"
    /\ pass = 0
    /\ toCheck = <<>>
    /\ toWarm = <<>>
    /\ wk = [w \in 1..MaxConcurrency |-> IdleWorker]
    /\ budget429 = Max429
    /\ hist = HistOff
    /\ EnvIdle

NextSaturated ==
    \/ Tick
    \/ Cancel
    \/ RunOnceCollect({SaturatingPages})
    \/ FilterStep
    \/ SpawnStep
    \/ WaitStep
    \/ \E w \in DOMAIN wk : WorkerStep(w)
    \/ \E w \in DOMAIN wk : Worker429Step(w)

SpecSaturated == InitSaturated /\ [][NextSaturated]_vars

(* The sitemap collector of runOnce.  A sitemap URL serves a document: its  *)
(* root element, the locs of its <sitemap> entries and the locs of its      *)
(* <url> entries, "" and 0 standing for an empty loc.  Locs carry no        *)
(* surrounding white space here.                                            *)
XmlDoc(root, sitemaps, urls) == [root |-> root, sitemaps |-> sitemaps, urls |-> urls]

NonEmptySitemapLoc(l) == l # ""
NonEmptyPageLoc(l) == l # 0

\* parseSitemapXML: the sitemapindex pass reads <sitemap> locs of a
\* sitemapindex root; the urlset pass reads <url> and <sitemap> locs of a
\* urlset root; a root of the other name fails that pass's Unmarshal.
parseSitemapXML(doc) ==
    LET fromIndex == IF doc.root = "sitemapindex"
                     THEN SelectSeq(doc.sitemaps, NonEmptySitemapLoc) ELSE <<>>
        fromUrlset == IF doc.root = "urlset"
                      THEN SelectSeq(doc.sitemaps, NonEmptySitemapLoc) ELSE <<>>
        urls == IF doc.root = "urlset"
                THEN SelectSeq(doc.urls, NonEmptyPageLoc) ELSE <<>>
    IN [childSitemaps |-> fromIndex \o fromUrlset, urls |-> urls]

\* WarmDB.MarkSitemap at clock reading t
MarkSitemap(tbl, t, sitemapURL, errorMsg) ==
    [x \in DOMAIN tbl \cup {sitemapURL} |->
        IF x = sitemapURL
        THEN [last_fetched_utc |-> FormatRFC3339(t), last_error |-> BindString(errorMsg)]
        ELSE tbl[x]]

\* A sitemapindex over two urlsets of two page URLs each.
SiteNested ==
    [sm \in {"s0", "s1", "s2"} |->
        CASE sm = "s0" -> XmlDoc("sitemapindex", <<"s1", "s2">>, <<>>)
          [] sm = "s1" -> XmlDoc("urlset", <<>>, <<1, 2>>)
          [] sm = "s2" -> XmlDoc("urlset", <<>>, <<3, 4>>)]

\* The same with a child listed twice and an empty loc in the index, a page
\* URL in both children, and a urlset that names the index as a sitemap.
SiteShared ==
    [sm \in {"s0", "s1", "s2"} |->
        CASE sm = "s0" -> XmlDoc("sitemapindex", <<"s1", "", "s2", "s1">>, <<>>)
          [] sm = "s1" -> XmlDoc("urlset", <<>>, <<1, 2, 3>>)
          [] sm = "s2" -> XmlDoc("urlset", <<"s0">>, <<3, 0, 4>>)]

Sites == {SiteNested, SiteShared}

\* cfg.Sitemaps.URLs
SeedLists == {<<"s0">>, <<"s0", "s2">>}

\* A call of collectURLsFromSitemap(sm): the children still to visit and
\* what it has collected.
Frame(sm) == [sm |-> sm, children |-> <<>>, collected |-> <<>>]

\* Variant: a parent call drops what every child returns.
PopFrameDropChild(c, collected, failed) ==
    LET n == Len(c.stack)
        rest == SubSeq(c.stack, 1, n - 1)
    IN IF n = 1
       THEN [c EXCEPT !.stack = <<>>, !.all = @ \o collected, !.pc = "seeds"]
       ELSE [c EXCEPT !.stack = rest, !.pc = "children"]

\* collectURLsFromSitemap returns (collected, err) to its caller: a parent
\* call drops what a failed child returns, runOnce appends what it gets.
PopFrame(c, collected, failed) ==
    LET n == Len(c.stack)
        rest == SubSeq(c.stack, 1, n - 1)
    IN IF n = 1
       THEN [c EXCEPT !.stack = <<>>, !.all = @ \o collected, !.pc = "seeds"]
       ELSE [c EXCEPT !.stack = [rest EXCEPT ![n - 1].collected =
                                     IF failed THEN @ ELSE @ \o collected],
                      !.pc = "children"]

TopFrame(c) == c.stack[Len(c.stack)]

\* runOnce entered: seenSitemaps reset, the loop over the seeds ahead
\* Variant: c.seenSitemaps is not made anew.
RunOnceStartKeepSeen ==
    /\ rpc = "start"
    /\ rpc' = "collect"
    /\ pass' = pass + 1
    /\ wk' = [w \in DOMAIN wk |-> IdleWorker]
    /\ toCheck' = <<>>
    /\ toWarm' = <<>>
    /\ col' = [pc |-> "seeds", site |-> col.site, cfgSeeds |-> col.cfgSeeds,
               seeds |-> col.cfgSeeds, all |-> <<>>,
               seen |-> IF "seen" \in DOMAIN col THEN col.seen ELSE {},
               stack |-> <<>>,
               attempt |-> 0, wake |-> 0, last429 |-> -1]
    /\ hist' = NewCollection(hist)
    /\ UNCHANGED <<now, storeVars, oracleVars, limiterVars, cancelled, budget429,
                   sitemap_seen, load, lp>>

RunOnceStart ==
    /\ rpc = "start"
    /\ rpc' = "collect"
    /\ pass' = pass + 1
    /\ wk' = [w \in DOMAIN wk |-> IdleWorker]
    /\ toCheck' = <<>>
    /\ toWarm' = <<>>
    /\ col' = [pc |-> "seeds", site |-> col.site, cfgSeeds |-> col.cfgSeeds,
               seeds |-> col.cfgSeeds, all |-> <<>>, seen |-> {}, stack |-> <<>>,
               attempt |-> 0, wake |-> 0, last429 |-> -1]
    /\ hist' = NewCollection(hist)
    /\ UNCHANGED <<now, storeVars, oracleVars, limiterVars, cancelled, budget429,
                   sitemap_seen, load, lp>>

\* Variant: the loop over the seeds ends at the first seed that gave URLs.
SeedStepFirstYield ==
    /\ rpc = "collect"
    /\ col.pc = "seeds"
    /\ IF col.seeds = <<>> \/ col.all # <<>>
       THEN /\ toCheck' = Dedupe(col.all, {})
            /\ rpc' = "filter"
            /\ col' = [col EXCEPT !.pc = "done"]
       ELSE IF cancelled
       THEN /\ toCheck' = toCheck
            /\ rpc' = "returned"
            /\ col' = [col EXCEPT !.pc = "done"]
       ELSE /\ toCheck' = toCheck
            /\ rpc' = rpc
            /\ col' = [col EXCEPT !.pc = "enter", !.seeds = Tail(@),
                                  !.stack = <<Frame(Head(col.seeds))>>]
    /\ UNCHANGED <<now, storeVars, oracleVars, limiterVars, cancelled, pass,
                   toWarm, wk, budget429, hist, sitemap_seen, load, lp>>

\* runOnce: one turn of the loop over the seeds, then the de-duplication
SeedStep ==
    /\ rpc = "collect"
    /\ col.pc = "seeds"
    /\ IF col.seeds = <<>>
       THEN /\ toCheck' = Dedupe(col.all, {})
            /\ rpc' = "filter"
            /\ col' = [col EXCEPT !.pc = "done"]
       ELSE IF cancelled
       THEN /\ toCheck' = toCheck
            /\ rpc' = "returned"
            /\ col' = [col EXCEPT !.pc = "done"]
       ELSE /\ toCheck' = toCheck
            /\ rpc' = rpc
            /\ col' = [col EXCEPT !.pc = "enter", !.seeds = Tail(@),
                                  !.stack = <<Frame(Head(col.seeds))>>]
    /\ UNCHANGED <<now, storeVars, oracleVars, limiterVars, cancelled, pass,
                   toWarm, wk, budget429, hist, sitemap_seen, load, lp>>

\* collectURLsFromSitemap: the seenSitemaps test
CollectEnter ==
    /\ rpc = "collect"
    /\ col.pc = "enter"
    /\ col' = IF TopFrame(col).sm \in col.seen
              THEN PopFrame(col, <<>>, FALSE)
              ELSE [col EXCEPT !.seen = @ \cup {TopFrame(col).sm},
                               !.pc = "fetch", !.attempt = 1]
    /\ hist' = IF TopFrame(col).sm \in col.seen THEN hist
               ELSE CountIn(hist, "fetches", TopFrame(col).sm)
    /\ UNCHANGED <<now, storeVars, oracleVars, limiterVars, cancelled, rpc, pass,
                   toCheck, toWarm, wk, budget429, sitemap_seen, load, lp>>

\* Variant: a sitemap that cannot be fetched ends the whole collection.
FetchGaveUpStops(errMsg) ==
    /\ sitemap_seen' = MarkSitemap(sitemap_seen, now, TopFrame(col).sm, errMsg)
    /\ col' = [col EXCEPT !.attempt = 0, !.wake = 0, !.stack = <<>>,
                          !.seeds = <<>>, !.pc = "seeds"]

\* fetchBytes returned an error: MarkSitemap(sitemapURL, err.Error()), return
FetchGaveUp(errMsg) ==
    /\ sitemap_seen' = MarkSitemap(sitemap_seen, now, TopFrame(col).sm, errMsg)
    /\ col' = PopFrame([col EXCEPT !.attempt = 0, !.wake = 0], <<>>, TRUE)

\* fetchBytes: waitForLoad at the head of an attempt, then the request
FetchGate ==
    /\ rpc = "collect"
    /\ col.pc = "fetch"
    /\ IF cancelled
       THEN FetchGaveUp(CtxErr)
       ELSE /\ sitemap_seen' = sitemap_seen
            /\ col' = IF load = "high"
                      THEN [col EXCEPT !.pc = "fetch_sleep",
                                       !.wake = now + Seconds(CheckIntervalSecs)]
                      ELSE [col EXCEPT !.pc = "fetch_get"]
    /\ UNCHANGED <<now, storeVars, oracleVars, limiterVars, cancelled, rpc, pass,
                   toCheck, toWarm, wk, budget429, hist, load, lp>>

\* fetchBytes in waitForLoad: the check interval is over, the load is read again
FetchSleepTimer ==
    /\ rpc = "collect"
    /\ col.pc = "fetch_sleep"
    /\ now >= col.wake
    /\ col' = [col EXCEPT !.pc = "fetch", !.wake = 0]
    /\ UNCHANGED <<now, storeVars, oracleVars, limiterVars, cancelled, rpc, pass,
                   toCheck, toWarm, wk, budget429, hist, sitemap_seen, load, lp>>

\* fetchBytes in waitForLoad: ctx.Done() wins the select
FetchSleepCancelled ==
    /\ rpc = "collect"
    /\ col.pc = "fetch_sleep"
    /\ cancelled
    /\ FetchGaveUp(CtxErr)
    /\ UNCHANGED <<now, storeVars, oracleVars, limiterVars, cancelled, rpc, pass,
                   toCheck, toWarm, wk, budget429, hist, load, lp>>

\* fetchBytes: the response is 2xx/3xx; parseSitemapXML, MarkSitemap(url, ""),
\* the loop over the children ahead
SitemapOK ==
    /\ rpc = "collect"
    /\ col.pc = "fetch_get"
    /\ ~cancelled
    /\ LET n == Len(col.stack)
           parsed == parseSitemapXML(col.site[TopFrame(col).sm])
       IN /\ sitemap_seen' = MarkSitemap(sitemap_seen, now, TopFrame(col).sm, "")
          /\ col' = [col EXCEPT !.pc = "children", !.attempt = 0,
                                !.stack[n].children = parsed.childSitemaps,
                                !.stack[n].collected = parsed.urls]
    /\ UNCHANGED <<now, storeVars, oracleVars, limiterVars, cancelled, rpc, pass,
                   toCheck, toWarm, wk, budget429, hist, load, lp>>

\* fetchBytes: an attempt failed with lastErr = errMsg
FailedFetch(errMsg) ==
    IF col.attempt >= Retries + 1
    THEN FetchGaveUp(errMsg)
    ELSE /\ sitemap_seen' = sitemap_seen
         /\ col' = [col EXCEPT !.pc = "fetch_backoff"]

\* fetchBytes: the response is >= 400 and not 429
SitemapHTTPError ==
    /\ rpc = "collect"
    /\ col.pc = "fetch_get"
    /\ ~cancelled
    /\ FailedFetch("HTTP 404")
    /\ UNCHANGED <<now, storeVars, oracleVars, limiterVars, cancelled, rpc, pass,
                   toCheck, toWarm, wk, budget429, hist, load, lp>>

\* fetchBytes: the response is 429, a status >= 400 like any other here
Sitemap429 ==
    /\ rpc = "collect"
    /\ col.pc = "fetch_get"
    /\ ~cancelled
    /\ budget429 > 0
    /\ budget429' = budget429 - 1
    /\ IF col.attempt >= Retries + 1
       THEN /\ sitemap_seen' = MarkSitemap(sitemap_seen, now, TopFrame(col).sm, "HTTP 429")
            /\ col' = PopFrame([col EXCEPT !.attempt = 0, !.last429 = now], <<>>, TRUE)
       ELSE /\ sitemap_seen' = sitemap_seen
            /\ col' = [col EXCEPT !.pc = "fetch_backoff", !.last429 = now]
    /\ UNCHANGED <<now, storeVars, oracleVars, limiterVars, cancelled, rpc, pass,
                   toCheck, toWarm, wk, hist, load, lp>>

\* fetchBytes: client.Do or the body read fails
SitemapTransportError ==
    /\ rpc = "collect"
    /\ col.pc = "fetch_get"
    /\ FailedFetch(DoErr)
    /\ UNCHANGED <<now, storeVars, oracleVars, limiterVars, cancelled, rpc, pass,
                   toCheck, toWarm, wk, budget429, hist, load, lp>>

\* fetchBytes: time.Sleep(backoff) is over, the next attempt
FetchBackoffDone ==
    /\ rpc = "collect"
    /\ col.pc = "fetch_backoff"
    /\ col' = [col EXCEPT !.pc = "fetch", !.attempt = @ + 1]
    /\ UNCHANGED <<now, storeVars, oracleVars, limiterVars, cancelled, rpc, pass,
                   toCheck, toWarm, wk, budget429, hist, sitemap_seen, load, lp>>

\* collectURLsFromSitemap: one turn of the loop over the child sitemaps
ChildrenStep ==
    /\ rpc = "collect"
    /\ col.pc = "children"
    /\ LET n == Len(col.stack)
           f == TopFrame(col)
       IN col' = IF f.children = <<>> THEN PopFrame(col, f.collected, FALSE)
                 ELSE IF cancelled THEN PopFrame(col, f.collected, TRUE)
                 ELSE [col EXCEPT !.pc = "enter",
                                  !.stack = Append([col.stack EXCEPT ![n].children = Tail(@)],
                                                   Frame(Head(f.children)))]
    /\ UNCHANGED <<now, storeVars, oracleVars, limiterVars, cancelled, rpc, pass,
                   toCheck, toWarm, wk, budget429, hist, sitemap_seen, load, lp>>

CollectStep ==
    \/ RunOnceStart
    \/ SeedStep
    \/ CollectEnter
    \/ FetchGate
    \/ SitemapOK
    \/ SitemapHTTPError
    \/ Sitemap429
    \/ SitemapTransportError
    \/ FetchBackoffDone
    \/ ChildrenStep

\* A worker against an origin that answers 200 to every page GET
WorkerOKStep(w) ==
    \/ acquire(w)
    \/ LoopTop(w)
    \/ GetOK(w)
    \/ MarkStep(w)
    \/ DeferRelease(w)

(* `cache-warmer once` over a nested sitemap, against an origin that may    *)
(* fail a sitemap fetch or answer it with 429 and answers 200 to every page *)
(* GET; the run is over within one tick of the clock.                       *)
InitCollect ==
    /\ now = 0
    /\ StoreInit
    /\ OracleIdle
    /\ rl = newRateLimiter(MaxConcurrency, CooldownSecs, RecoverAfterN)
    /\ lastOp = NoOp
    /\ cancelled = FALSE
    /\ rpc = "start"
    /\ pass = 0
    /\ toCheck = <<>>
    /\ toWarm = <<>>
    /\ wk = [w \in 1..4 |-> IdleWorker]
    /\ budget429 = Max429
    /\ hist = HistOff
    /\ \E site \in Sites, seeds \in SeedLists :
          col = [pc |-> "off", site |-> site, cfgSeeds |-> seeds]
    /\ sitemap_seen = EmptyTable
    /\ load = "low"
    /\ lp = LoopIdle

NextCollect ==
    \/ Cancel
    \/ CollectStep
    \/ FilterStep
    \/ SpawnStep
    \/ WaitStep
    \/ \E w \in DOMAIN wk : WorkerOKStep(w)

SpecCollect == InitCollect /\ [][NextCollect]_vars

----------------------------------------------------------------------------
(* `cache-warmer once` against an origin that answers 429 to at most Max429 *)
(* requests and 200 to all others, with no signal                           *)

\* A goroutine sleeps on a timer that has not fired yet.
TimerPending ==
    \E w \in DOMAIN wk : wk[w].pc \in {"acq_sleep", "cool429"} /\ wk[w].wake > now

\* The clock advances: at will up to MaxTime, and whenever a timer is pending.
TickTimers ==
    /\ now < MaxTime \/ TimerPending
    /\ now' = now + 1
    /\ UNCHANGED <<storeVars, oracleVars, limiterVars, poolVars>>

\* The steps of a 429 that no cancellation interrupts
WorkerRetry429Step(w) ==
    \/ Get429(w)
    \/ AcqSleepTimer(w)
    \/ Release429(w)
    \/ Cool429Timer(w)

\* The sitemap lists two page URLs.
TwoPages == <<1, 2>>

InitFinite429 ==
    /\ now = 0
    /\ StoreInit
    /\ OracleIdle
    /\ rl = newRateLimiter(MaxConcurrency, CooldownSecs, RecoverAfterN)
    /\ lastOp = NoOp
    /\ cancelled = FALSE
    /\ rpc = "start"
    /\ pass = 0
    /\ toCheck = <<>>
    /\ toWarm = <<>>
    /\ wk = [w \in 1..2 |-> IdleWorker]
    /\ budget429 = Max429
    /\ hist = HistOff
    /\ EnvIdle

RunOnceStep ==
    \/ RunOnceCollect({TwoPages})
    \/ FilterStep
    \/ SpawnStep
    \/ WaitStep

NextFinite429 ==
    \/ TickTimers
    \/ RunOnceStep
    \/ \E w \in DOMAIN wk : WorkerOKStep(w)
    \/ \E w \in DOMAIN wk : WorkerRetry429Step(w)

\* Every goroutine that can run does run, and time passes.
FairFinite429 ==
    /\ WF_vars(TickTimers)
    /\ WF_vars(RunOnceStep)
    /\ \A w \in 1..2 : WF_vars(WorkerOKStep(w) \/ WorkerRetry429Step(w))

SpecFinite429 == InitFinite429 /\ [][NextFinite429]_vars /\ FairFinite429

----------------------------------------------------------------------------
(* `cache-warmer once` with the signal handler, every goroutine scheduled *)

NextCancel ==
    \/ Tick
    \/ Cancel
    \/ RunOnceStep
    \/ \E w \in DOMAIN wk : WorkerStep(w)
    \/ \E w \in DOMAIN wk : Worker429Step(w)

\* Every goroutine that can run does run; nothing is asked of the signal or
\* of the clock.
FairCancel ==
    /\ WF_vars(RunOnceStep)
    /\ \A w \in 1..2 : WF_vars(WorkerStep(w) \/ Worker429Step(w))

SpecCancel == InitFinite429 /\ [][NextCancel]_vars /\ FairCancel

----------------------------------------------------------------------------
(* `cache-warmer once` over two page URLs against an origin that answers    *)
(* with any status, with the signal handler                                 *)

NextStatus ==
    \/ NextCancel
    \/ \E w \in DOMAIN wk : GetOtherStatus(w)

SpecStatus == InitFinite429 /\ [][NextStatus]_vars

----------------------------------------------------------------------------
(* `cache-warmer once` over three page URLs, all let in at once, against an *)
(* origin that answers 429 to at most Max429 requests for the first URL    *)
(* and 200 to all others, with no signal; every goroutine scheduled        *)

ThreePages == <<1, 2, 3>>

InitDrain ==
    /\ now = 0
    /\ StoreInit
    /\ OracleIdle
    /\ rl = newRateLimiter(MaxConcurrency, CooldownSecs, RecoverAfterN)
    /\ lastOp = NoOp
    /\ cancelled = FALSE
    /\ rpc = "start"
    /\ pass = 0
    /\ toCheck = <<>>
    /\ toWarm = <<>>
    /\ wk = [w \in 1..3 |-> IdleWorker]
    /\ budget429 = Max429
    /\ hist = HistOff
    /\ EnvIdle

RunOnceThree ==
    \/ RunOnceCollect({ThreePages})
    \/ FilterStep
    \/ SpawnStep
    \/ WaitStep

\* The clock advances while a goroutine sleeps on a timer.
TickPending ==
    /\ TimerPending
    /\ now' = now + 1
    /\ UNCHANGED <<storeVars, oracleVars, limiterVars, poolVars>>

\* A goroutine whose URL is never answered with 429
WorkerDrainStep(w) ==
    \/ WorkerOKStep(w)
    \/ AcqSleepTimer(w)

NextDrain ==
    \/ TickPending
    \/ RunOnceThree
    \/ \E w \in DOMAIN wk : WorkerDrainStep(w)
    \/ WorkerRetry429Step(1)

\* Every goroutine that can run does run, and time passes.
FairDrain ==
    /\ WF_vars(TickPending)
    /\ WF_vars(RunOnceThree)
    /\ \A w \in 1..3 : WF_vars(WorkerDrainStep(w))
    /\ WF_vars(WorkerRetry429Step(1))

SpecDrain == InitDrain /\ [][NextDrain]_vars /\ FairDrain

(* `cache-warmer once` over three pages with http.concurrency = 2, against  *)
(* an origin that never answers a page GET with 429, with the signal        *)
(* handler; beside it the counting semaphore of the variant without the     *)
(* limiter.                                                                 *)

\* sem <- struct{}{} on a channel of capacity cap holding n tokens: the send
\* goes through when the buffer has room and blocks otherwise; it does not
\* look at ctx.
SemSend(n, cap) ==
    IF n < cap THEN [ok |-> TRUE, len |-> n + 1]
               ELSE [ok |-> FALSE, len |-> n]

\* defer func() { <-sem }()
SemRecv(n) == n - 1

InitNo429 ==
    /\ now = 0
    /\ StoreInit
    /\ OracleIdle
    /\ rl = newRateLimiter(2, CooldownSecs, RecoverAfterN)
    /\ lastOp = NoOp
    /\ cancelled = FALSE
    /\ rpc = "start"
    /\ pass = 0
    /\ toCheck = <<>>
    /\ toWarm = <<>>
    /\ wk = [w \in 1..3 |-> IdleWorker]
    /\ budget429 = 0
    /\ hist = HistOff
    /\ EnvIdle

NextNo429 ==
    \/ Tick
    \/ Cancel
    \/ RunOnceThree
    \/ \E w \in DOMAIN wk : WorkerStep(w)

SpecNo429 == InitNo429 /\ [][NextNo429]_vars

----------------------------------------------------------------------------
(* `cache-warmer run`: runLoop over one page URL, with the signal handler *)

LoopInterval == Seconds(LoopIntervalSecs)

\* runLoop returns err
LoopExit(l, err) == [l EXCEPT !.pc = "exit", !.err = err, !.wake = 0]

\* Variant: the head of the loop does not poll ctx.
RunLoopTopNoCtxCheck ==
    /\ lp.pc = "top"
    /\ pass < MaxPasses
    /\ lp' = [lp EXCEPT !.pc = "run"]
    /\ pass' = pass + 1
    /\ wk' = [w \in DOMAIN wk |-> IdleWorker]
    /\ toWarm' = <<>>
    /\ toCheck' = Dedupe(<<1>>, {})
    /\ rpc' = IF cancelled THEN "returned" ELSE "filter"
    /\ UNCHANGED <<now, storeVars, oracleVars, limiterVars, cancelled, budget429,
                   hist, col, sitemap_seen, load>>

\* runLoop, the head of its loop: the poll of ctx, then the call of runOnce,
\* taken up to its de-duplicated list as RunOnceCollect takes it.
RunLoopTop ==
    /\ lp.pc = "top"
    /\ cancelled \/ pass < MaxPasses
    /\ IF cancelled
       THEN /\ lp' = LoopExit(lp, CtxErr)
            /\ UNCHANGED <<pass, wk, toWarm, toCheck, rpc>>
       ELSE /\ lp' = [lp EXCEPT !.pc = "run"]
            /\ pass' = pass + 1
            /\ wk' = [w \in DOMAIN wk |-> IdleWorker]
            /\ toWarm' = <<>>
            /\ toCheck' = Dedupe(<<1>>, {})
            /\ rpc' = "filter"
    /\ UNCHANGED <<now, storeVars, oracleVars, limiterVars, cancelled, budget429,
                   hist, col, sitemap_seen, load>>

\* runLoop, the head of its loop: the poll of ctx, then the call of runOnce
RunLoopCall ==
    /\ lp.pc = "top"
    /\ cancelled \/ pass < MaxPasses
    /\ IF cancelled
       THEN /\ lp' = LoopExit(lp, CtxErr)
            /\ rpc' = rpc
       ELSE /\ lp' = [lp EXCEPT !.pc = "run"]
            /\ rpc' = "start"
    /\ UNCHANGED <<now, storeVars, oracleVars, limiterVars, cancelled, pass, toCheck,
                   toWarm, wk, budget429, hist, col, sitemap_seen, load>>

\* runLoop: runOnce has returned; return nil unless cfg.App.Loop, else the
\* select on time.After(LoopIntervalSeconds) and ctx.Done() begins
RunOnceReturned ==
    /\ lp.pc = "run"
    /\ rpc = "returned"
    /\ rpc' = "off"
    /\ lp' = IF ~lp.on
             THEN LoopExit(lp, "")
             ELSE [lp EXCEPT !.pc = "sleep", !.wake = now + LoopInterval]
    /\ UNCHANGED <<now, storeVars, oracleVars, limiterVars, cancelled, pass,
                   toCheck, toWarm, wk, budget429, hist, col, sitemap_seen, load>>

\* runLoop: time.After fires, back to the head of the loop
LoopSleepTimer ==
    /\ lp.pc = "sleep"
    /\ now >= lp.wake
    /\ lp' = [lp EXCEPT !.pc = "top", !.wake = 0, !.slept = @ + 1]
    /\ UNCHANGED <<now, storeVars, oracleVars, limiterVars, cancelled, rpc, pass,
                   toCheck, toWarm, wk, budget429, hist, col, sitemap_seen, load>>

\* runLoop: ctx.Done() wins the select
LoopSleepCancelled ==
    /\ lp.pc = "sleep"
    /\ cancelled
    /\ lp' = LoopExit(lp, CtxErr)
    /\ UNCHANGED <<now, storeVars, oracleVars, limiterVars, cancelled, rpc, pass,
                   toCheck, toWarm, wk, budget429, hist, col, sitemap_seen, load>>

\* The clock advances: at will up to MaxTime, and while runLoop sleeps.
TickLoop ==
    /\ now < MaxTime \/ (lp.pc = "sleep" /\ lp.wake > now)
    /\ now' = now + 1
    /\ UNCHANGED <<storeVars, oracleVars, limiterVars, poolVars>>

RunLoopStep ==
    \/ RunLoopTop
    \/ RunOnceReturned
    \/ LoopSleepTimer
    \/ LoopSleepCancelled
    \/ FilterStep
    \/ SpawnStep
    \/ WaitStep

InitLoop ==
    /\ now = 0
    /\ StoreInit
    /\ OracleIdle
    /\ rl = newRateLimiter(MaxConcurrency, CooldownSecs, RecoverAfterN)
    /\ lastOp = NoOp
    /\ cancelled = FALSE
    /\ rpc = "off"
    /\ pass = 0
    /\ toCheck = <<>>
    /\ toWarm = <<>>
    /\ wk = [w \in {1} |-> IdleWorker]
    /\ budget429 = 0
    /\ hist = HistOff
    /\ col = ColIdle
    /\ sitemap_seen = EmptyTable
    /\ load = "low"
    /\ \E on \in BOOLEAN :
          lp = [on |-> on, pc |-> "top", wake |-> 0, slept |-> 0, err |-> ""]

NextLoop ==
    \/ TickLoop
    \/ Cancel
    \/ RunLoopStep
    \/ \E w \in DOMAIN wk : WorkerStep(w)

\* runLoop and the goroutine run when they can.
FairLoop ==
    /\ WF_vars(RunLoopStep)
    /\ WF_vars(WorkerStep(1))

SpecLoop == InitLoop /\ [][NextLoop]_vars /\ FairLoop

----------------------------------------------------------------------------
(* `cache-warmer once` with http.concurrency = 1: a goroutine waits for the *)
(* slot from the start                                                      *)

InitNarrow ==
    /\ now = 0
    /\ StoreInit
    /\ OracleIdle
    /\ rl = newRateLimiter(1, CooldownSecs, RecoverAfterN)
    /\ lastOp = NoOp
    /\ cancelled = FALSE
    /\ rpc = "start"
    /\ pass = 0
    /\ toCheck = <<>>
    /\ toWarm = <<>>
    /\ wk = [w \in 1..2 |-> IdleWorker]
    /\ budget429 = Max429
    /\ hist = HistOff
    /\ EnvIdle

SpecNarrow == InitNarrow /\ [][NextCancel]_vars

----------------------------------------------------------------------------
(* `cache-warmer once` over two page URLs with the GETs and the 429 answers *)
(* of each URL counted                                                      *)

InitRetry ==
    /\ now = 0
    /\ StoreInit
    /\ OracleIdle
    /\ rl = newRateLimiter(MaxConcurrency, CooldownSecs, RecoverAfterN)
    /\ lastOp = NoOp
    /\ cancelled = FALSE
    /\ rpc = "start"
    /\ pass = 0
    /\ toCheck = <<>>
    /\ toWarm = <<>>
    /\ wk = [w \in 1..2 |-> IdleWorker]
    /\ budget429 = Max429
    /\ hist = HistCount(1..2)
    /\ EnvIdle

SpecRetry == InitRetry /\ [][NextCancel]_vars

----------------------------------------------------------------------------
(* The load gate: `cache-warmer once` on a host whose load changes *)

\* What getLoad1m gives: a load at or under max_load, one above it, or an
\* error (no readable /proc/loadavg).
Loads == {"low", "high", "unavailable"}

\* The host's load changes.
LoadChange ==
    /\ load' \in Loads \ {load}
    /\ UNCHANGED <<now, storeVars, oracleVars, limiterVars, cancelled, rpc, pass,
                   toCheck, toWarm, wk, budget429, hist, col, sitemap_seen, lp>>

\* One urlset of two page URLs.
SiteFlat == [sm \in {"s0"} |-> XmlDoc("urlset", <<>>, <<1, 2>>)]

WorkerLoadStep(w) ==
    \/ LoadSleepTimer(w)
    \/ LoadSleepCancelled(w)

InitLoad ==
    /\ now = 0
    /\ StoreInit
    /\ OracleIdle
    /\ rl = newRateLimiter(MaxConcurrency, CooldownSecs, RecoverAfterN)
    /\ lastOp = NoOp
    /\ cancelled = FALSE
    /\ rpc = "start"
    /\ pass = 0
    /\ toCheck = <<>>
    /\ toWarm = <<>>
    /\ wk = [w \in 1..2 |-> IdleWorker]
    /\ budget429 = Max429
    /\ col = [pc |-> "off", site |-> SiteFlat, cfgSeeds |-> <<"s0">>]
    /\ sitemap_seen = EmptyTable
    /\ hist = HistOff
    /\ load \in Loads
    /\ lp = LoopIdle

NextLoad ==
    \/ Tick
    \/ Cancel
    \/ LoadChange
    \/ CollectStep
    \/ FetchSleepTimer
    \/ FetchSleepCancelled
    \/ FilterStep
    \/ SpawnStep
    \/ WaitStep
    \/ \E w \in DOMAIN wk : WorkerStep(w)
    \/ \E w \in DOMAIN wk : WorkerLoadStep(w)

SpecLoad == InitLoad /\ [][NextLoad]_vars

----------------------------------------------------------------------------
(* `cache-warmer once` over two page URLs on a host whose load changes,    *)
(* with 429s, failures and the signal handler                              *)

InitAbort ==
    /\ now = 0
    /\ StoreInit
    /\ OracleIdle
    /\ rl = newRateLimiter(MaxConcurrency, CooldownSecs, RecoverAfterN)
    /\ lastOp = NoOp
    /\ cancelled = FALSE
    /\ rpc = "start"
    /\ pass = 0
    /\ toCheck = <<>>
    /\ toWarm = <<>>
    /\ wk = [w \in 1..2 |-> IdleWorker]
    /\ budget429 = Max429
    /\ hist = HistOff
    /\ col = ColIdle
    /\ sitemap_seen = EmptyTable
    /\ load \in Loads
    /\ lp = LoopIdle

NextAbort ==
    \/ NextCancel
    \/ LoadChange
    \/ \E w \in DOMAIN wk : WorkerLoadStep(w)

SpecAbort == InitAbort /\ [][NextAbort]_vars

----------------------------------------------------------------------------
(* `cache-warmer run` over sitemaps that list themselves, each other and a  *)
(* payload that is no sitemap; every sitemap names the one page URL.  The   *)
(* origin answers or the request fails in transport; it sends no 429.       *)

SitemapNames == {"s0", "s1", "s2"}

\* An index that lists itself, and a seed whose payload is malformed.
SiteSelfLoop ==
    [sm \in SitemapNames |->
        CASE sm = "s0" -> XmlDoc("sitemapindex", <<"s0", "s1">>, <<>>)
          [] sm = "s1" -> XmlDoc("urlset", <<>>, <<1>>)
          [] sm = "s2" -> XmlDoc("malformed", <<"s1">>, <<1>>)]

\* An index whose children list it back, each other and themselves.
SiteCycle ==
    [sm \in SitemapNames |->
        CASE sm = "s0" -> XmlDoc("sitemapindex", <<"s1", "s2", "s1">>, <<>>)
          [] sm = "s1" -> XmlDoc("urlset", <<"s0">>, <<1>>)
          [] sm = "s2" -> XmlDoc("urlset", <<"s1", "s2">>, <<1>>)]

CyclicSites == {SiteSelfLoop, SiteCycle}

InitRecollect ==
    /\ now = 0
    /\ StoreInit
    /\ OracleIdle
    /\ rl = newRateLimiter(MaxConcurrency, CooldownSecs, RecoverAfterN)
    /\ lastOp = NoOp
    /\ cancelled = FALSE
    /\ rpc = "off"
    /\ pass = 0
    /\ toCheck = <<>>
    /\ toWarm = <<>>
    /\ wk = [w \in {1} |-> IdleWorker]
    /\ budget429 = 0
    /\ hist = HistFetch(SitemapNames)
    /\ \E site \in CyclicSites, seeds \in SeedLists :
          col = [pc |-> "off", site |-> site, cfgSeeds |-> seeds]
    /\ sitemap_seen = EmptyTable
    /\ load = "low"
    /\ lp = [on |-> TRUE, pc |-> "top", wake |-> 0, slept |-> 0, err |-> ""]

\* The clock stands while runOnce runs and advances while runLoop sleeps.
TickAsleep ==
    /\ lp.pc = "sleep"
    /\ lp.wake > now
    /\ now' = now + 1
    /\ UNCHANGED <<storeVars, oracleVars, limiterVars, poolVars>>

\* runLoop and the runOnce it calls
RecollectStep ==
    \/ RunLoopCall
    \/ RunOnceReturned
    \/ LoopSleepTimer
    \/ LoopSleepCancelled
    \/ RunOnceStart
    \/ SeedStep
    \/ CollectEnter
    \/ FetchGate
    \/ SitemapOK
    \/ SitemapTransportError
    \/ FetchBackoffDone
    \/ ChildrenStep
    \/ FilterStep
    \/ SpawnStep
    \/ WaitStep

NextRecollect ==
    \/ TickAsleep
    \/ Cancel
    \/ RecollectStep
    \/ \E w \in DOMAIN wk : WorkerStep(w)

\* runLoop and the goroutine run when they can.
FairRecollect ==
    /\ WF_vars(TickAsleep)
    /\ WF_vars(RecollectStep)
    /\ WF_vars(WorkerStep(1))

SpecRecollect == InitRecollect /\ [][NextRecollect]_vars /\ FairRecollect

----------------------------------------------------------------------------
(* `cache-warmer once` on a sitemap of one page URL, against an origin that *)
(* may answer 429 to request after request.                                *)
TickStorm ==
    /\ now < MaxTimeStorm
    /\ now' = now + 1
    /\ UNCHANGED <<storeVars, oracleVars, limiterVars, poolVars>>

InitStorm ==
    /\ now = 0
    /\ StoreInit
    /\ OracleIdle
    /\ rl = newRateLimiter(MaxConcurrency, CooldownSecs, RecoverAfterN)
    /\ lastOp = NoOp
    /\ cancelled = FALSE
    /\ rpc = "start"
    /\ pass = 0
    /\ toCheck = <<>>
    /\ toWarm = <<>>
    /\ wk = [w \in {1} |-> IdleWorker]
    /\ budget429 = Max429Storm
    /\ hist = HistOff
    /\ EnvIdle

NextStorm ==
    \/ TickStorm
    \/ Cancel
    \/ RunOnceCollect({<<1>>})
    \/ FilterStep
    \/ SpawnStep
    \/ WaitStep
    \/ \E w \in DOMAIN wk : WorkerStep(w)
    \/ \E w \in DOMAIN wk : Worker429Step(w)

SpecStorm == InitStorm /\ [][NextStorm]_vars

(* `cache-warmer once` run again and again on one database, against an     *)
(* origin that sends no 429 and with no signal arriving, while             *)
(* `cache-warmer flush` runs beside it.                                    *)

\* cmdRun(once) in a new process: a new context, a new CacheWarmer
cmdRunAgain ==
    /\ rpc = "returned"
    /\ pass < MaxPasses
    /\ rpc' = "start"
    /\ cancelled' = FALSE
    /\ rl' = newRateLimiter(MaxConcurrency, CooldownSecs, RecoverAfterN)
    /\ wk' = [w \in DOMAIN wk |-> IdleWorker]
    /\ UNCHANGED <<now, storeVars, oracleVars, lastOp, pass, toCheck, toWarm,
                   budget429, hist, envVars>>

InitRerun ==
    /\ now = 0
    /\ StoreInit
    /\ OracleIdle
    /\ rl = newRateLimiter(MaxConcurrency, CooldownSecs, RecoverAfterN)
    /\ lastOp = NoOp
    /\ cancelled = FALSE
    /\ rpc = "start"
    /\ pass = 0
    /\ toCheck = <<>>
    /\ toWarm = <<>>
    /\ wk = [w \in Page |-> IdleWorker]
    /\ budget429 = 0
    /\ hist = HistInit
    /\ EnvIdle

NextRerun ==
    \/ Tick
    \/ cmdRunAgain
    \/ RunOnceCollect(PoolPageLists)
    \/ FilterStep
    \/ SpawnStep
    \/ WaitStep
    \/ \E w \in DOMAIN wk : WorkerStep(w)
    \/ MarkFlushTime
    \/ MarkFlushReason

SpecRerun == InitRerun /\ [][NextRerun]_vars

----------------------------------------------------------------------------
(* The staleness oracle as a function of its inputs: the stored row of one *)
(* URL, the stored flush marker, the clock and the interval.               *)

TimeTexts == {BadTimeText} \cup {FormatRFC3339(t) : t \in 0..MaxTime}

OracleRows ==
    {EmptyTable} \cup
    { [u \in {1} |-> [last_warmed_utc |-> lw, last_status |-> 200,
                      last_error |-> BindString(""), warmed_count |-> 1]]
      : lw \in TimeTexts }

OracleMetas ==
    {EmptyTable} \cup { [k \in {"last_flush_utc"} |-> f] : f \in TimeTexts }

InitOracle ==
    /\ now \in 0..MaxTime
    /\ warmed_url \in OracleRows
    /\ meta \in OracleMetas
    /\ flushPc = "idle"
    /\ flushReason = ""
    /\ flushedAt = NoTime
    /\ OracleIdle
    /\ LimiterIdle
    /\ PoolIdle

\* A call ShouldWarm(url, rewarmAfter) against the store as it stands.
ShouldWarmCall ==
    \E u \in URL, interval \in Intervals :
        /\ swArgs' = [called |-> TRUE, url |-> u, rewarmAfter |-> interval, t |-> now]
        /\ swResult' = ShouldWarm(warmed_url, meta, now, u, interval)
        /\ UNCHANGED <<now, storeVars, limiterVars, poolVars>>

NextOracle ==
    \/ Tick
    \/ ShouldWarmCall

SpecOracle == InitOracle /\ [][NextOracle]_vars

----------------------------------------------------------------------------
(* Claims about the state store *)

IsSuccessRow(r) ==
    /\ r.last_status >= 200
    /\ r.last_status <= 399
    /\ r.last_error = BindString("")

\* C1: stats() reports warmed_total = number of URL records, ok_total = number
\* of records whose latest outcome is a success (200..399 recorded with an empty
\* error message) and err_total = number of the remaining records.
C1_StatsCountOutcomes ==
    LET s == Stats(warmed_url, meta)
        ok == {u \in DOMAIN warmed_url : IsSuccessRow(warmed_url[u])}
    IN /\ s.WarmedTotal = Cardinality(DOMAIN warmed_url)
       /\ s.OKTotal = Cardinality(ok)
       /\ s.ErrTotal = Cardinality(DOMAIN warmed_url \ ok)

\* C2: should_warm returns true exactly when (a) no record exists, or (b) the
\* stored last_warmed does not parse, or (c) a flush timestamp exists and
\* last_warmed is strictly earlier than it, or (d) now - last_warmed >= interval.
C2_ShouldWarmCases ==
    swArgs.called =>
        LET u == swArgs.url
            hasRow == u \in DOMAIN warmed_url
            lw == warmed_url[u].last_warmed_utc
            hasFlush == /\ "last_flush_utc" \in DOMAIN meta
                        /\ meta["last_flush_utc"].ok
            a == ~hasRow
            b == hasRow /\ ~lw.ok
            c == hasRow /\ lw.ok /\ hasFlush /\ lw.sec < meta["last_flush_utc"].sec
            d == hasRow /\ lw.ok /\ swArgs.t - lw.sec * TicksPerSec >= swArgs.rewarmAfter
        IN swResult <=> (a \/ b \/ c \/ d)

\* C2 witness: a call on a record warmed in the very second of the flush whose
\* age equals the interval exactly; it is stale by the age test alone.
C2_Witness ==
    /\ swArgs.called
    /\ swArgs.url \in DOMAIN warmed_url
    /\ warmed_url[swArgs.url].last_warmed_utc.ok
    /\ "last_flush_utc" \in DOMAIN meta
    /\ meta["last_flush_utc"] = warmed_url[swArgs.url].last_warmed_utc
    /\ swArgs.t - warmed_url[swArgs.url].last_warmed_utc.sec * TicksPerSec
           = swArgs.rewarmAfter
    /\ swResult

\* C3: after mark_flush records flush time T, should_warm(U, interval) is true
\* for every interval and every URL U whose stored last_warmed is strictly
\* earlier than T (until mark_warmed rewrites U's record).
C3_FlushForcesShouldWarm ==
    flushedAt.some =>
        \A u \in DOMAIN warmed_url, interval \in Intervals :
            ParseRFC3339(warmed_url[u].last_warmed_utc) < flushedAt.t
                => ShouldWarm(warmed_url, meta, now, u, interval)

\* C3 witness: a record older than the recorded flush and younger than an
\* interval tried, so that only the flush makes it stale.
C3_Witness ==
    /\ flushedAt.some
    /\ \E u \in DOMAIN warmed_url, interval \in Intervals :
          /\ ParseRFC3339(warmed_url[u].last_warmed_utc) < flushedAt.t
          /\ now - ParseRFC3339(warmed_url[u].last_warmed_utc) < interval
          /\ ShouldWarm(warmed_url, meta, now, u, interval)

----------------------------------------------------------------------------
(* Claims about the runs *)

\* C4: a flush forces the next pass to re-warm: when the first pass started
\* after a flush has returned, every URL fetched before that flush has been
\* fetched again by that pass, wherever the flush fell in the earlier pass.
C4_FlushForcesRewarm ==
    (/\ hist.on
     /\ hist.flushPass >= 0
     /\ pass = hist.flushPass + 1
     /\ rpc = "returned"
     /\ ~cancelled)
    => hist.fetchedBefore \subseteq hist.refetched

\* C5: with no flush at all, a later run issues no GET for a page URL whose
\* record was written less than the rewarm interval ago.
C5_NoGetWithinInterval ==
    (hist.on /\ pass >= 2 /\ hist.flushPass = -1 /\ flushedAt = NoTime)
    => \A w \in DOMAIN wk :
          (wk[w].pc = "get" /\ w \in DOMAIN hist.markedAt)
          => now - hist.markedAt[w] >= RewarmAfter

\* C12: a worker retries a URL on 429 at most rate_limit_max_429_retries
\* times and then gives up: no GET is in flight for the one URL of the run
\* once the origin has answered it with more 429s than that.
C12_GivesUpAfterMax429 ==
    \A w \in DOMAIN wk :
        wk[w].pc = "get" => Max429Storm - budget429 <= Max429Retries

\* C13: a 429 answer to a sitemap fetch lowers the limiter's cap and starts a
\* cooldown as a 429 on a page URL does: from then on, while the sitemaps are
\* being collected, the cooldown reaches at least cooldown_seconds past the
\* 429 and the cap is at most half of http.concurrency (at least 1).
C13_Sitemap429LowersCap ==
    (rpc = "collect" /\ col.last429 >= 0)
    => /\ rl.cooldownUntil >= col.last429 + Seconds(CooldownSecs)
       /\ rl.currentConcurrency <= Max(1, MaxConcurrency \div 2)

Range(f) == {f[x] : x \in DOMAIN f}

\* The sitemaps reachable from the set S through <sitemap> entries.
RECURSIVE ReachableSitemaps(_, _)
ReachableSitemaps(site, S) ==
    LET next == S \cup {c \in DOMAIN site :
                          \E p \in S : c \in Range(parseSitemapXML(site[p]).childSitemaps)}
    IN IF next = S THEN S ELSE ReachableSitemaps(site, next)

\* The page URLs the sitemaps of S list.
PagesOf(site, S) == UNION {Range(parseSitemapXML(site[sm]).urls) : sm \in S}

NoDuplicates(list) ==
    \A i, j \in 1..Len(list) : list[i] = list[j] => i = j

\* C6: in one runOnce a URL whose goroutine got past the initial acquire has
\* exactly one MarkWarmed call and its warmed_count rises by one, whatever the
\* retries and 429 cycles; no other URL has any; and no URL is listed twice in
\* what runOnce filters and hands to goroutines.
C6_ExactlyOneMarkPerURL ==
    /\ \A w \in DOMAIN wk :
          /\ wk[w].marks <= 1
          /\ wk[w].marks = 1 => wk[w].acquired
          /\ wk[w].pc = "done" => wk[w].marks = (IF wk[w].acquired THEN 1 ELSE 0)
          /\ w \in DOMAIN warmed_url <=> wk[w].marks = 1
          /\ w \in DOMAIN warmed_url => warmed_url[w].warmed_count = 1
    /\ NoDuplicates(toCheck)
    /\ NoDuplicates(toWarm)

\* C6 witness: the run has returned after the origin sent its 429s, a failed
\* request was retried, and every page URL has its one record.
C6_Witness ==
    /\ rpc = "returned"
    /\ budget429 = 0
    /\ Max429 > 0
    /\ \A w \in DOMAIN wk : wk[w].pc = "done" /\ wk[w].marks = 1
    /\ \E w \in DOMAIN wk : warmed_url[w].last_status = 404

\* C16: when every sitemap reachable from the seeds was fetched with success
\* and no signal came, what runOnce collects is, de-duplicated, exactly the
\* page URLs of those sitemaps; each is warmed once, nothing else is, and
\* sitemap_seen has one row for each of those sitemaps (3 here, for 4 pages).
C16_NestedSitemapUnion ==
    (/\ rpc \in {"filter", "spawn", "wait", "returned"}
     /\ ~cancelled
     /\ \A sm \in DOMAIN sitemap_seen : sitemap_seen[sm].last_error = BindString(""))
    => LET reach == ReachableSitemaps(col.site, Range(col.cfgSeeds))
           want == PagesOf(col.site, reach)
           unique == Dedupe(col.all, {})
       IN /\ DOMAIN sitemap_seen = reach
          /\ Range(unique) = want
          /\ NoDuplicates(unique)
          /\ NoDuplicates(toCheck) /\ NoDuplicates(toWarm)
          /\ \A w \in DOMAIN wk : wk[w].marks <= 1
          /\ rpc = "returned" =>
                /\ DOMAIN warmed_url = want
                /\ \A u \in want : /\ warmed_url[u].warmed_count = 1
                                   /\ warmed_url[u].last_status = 200
                                   /\ wk[u].marks = 1

\* C16 witness: the run over the index with a repeated child, a shared page
\* URL and a back reference has returned, a sitemap fetch having been
\* retried after a 429: 4 pages warmed, 3 rows in sitemap_seen.
C16_Witness ==
    /\ rpc = "returned"
    /\ ~cancelled
    /\ col.site = SiteShared
    /\ budget429 < Max429
    /\ \A sm \in DOMAIN sitemap_seen : sitemap_seen[sm].last_error = BindString("")
    /\ Cardinality(DOMAIN sitemap_seen) = 3
    /\ Cardinality(DOMAIN warmed_url) = 4
    /\ \A u \in DOMAIN warmed_url : warmed_url[u].warmed_count = 1

\* C14 as stated: while the load read is above max_load no worker issues a
\* page GET, be it a first attempt, a retry or an attempt after a cooldown.
C14_NoGetWhileLoadHigh ==
    [][\A w \in DOMAIN wk :
          (wk[w].pc # "get" /\ wk'[w].pc = "get") => load # "high"]_vars

\* C14 amended: a worker issues the first page GET of its warmOne only on a
\* load read at or under max_load or on no load at all, and before that
\* holds its slot without a GET; it leaves the sleep of waitForLoad either
\* when the check interval is over, to read the load again, or on
\* cancellation, with the outcome (0, ctx error). Retries and the attempts
\* after a 429 cooldown are not gated.
C14_LoadGate ==
    /\ [](\A w \in DOMAIN wk :
            wk[w].pc = "load_sleep" => wk[w].holds /\ ~wk[w].gated /\ wk[w].attempt = 0)
    /\ [][\A w \in DOMAIN wk :
            /\ (~wk[w].gated /\ wk'[w].gated)
               => /\ load # "high"
                  /\ wk[w].pc = "loop" /\ wk'[w].pc = "get" /\ wk'[w].attempt = 1
            /\ (wk[w].pc # "get" /\ wk'[w].pc = "get") => wk'[w].gated
            /\ (wk[w].pc = "load_sleep" /\ wk'[w].pc # "load_sleep")
               => \/ /\ wk'[w].pc = "loop"
                     /\ now >= wk[w].wake
                     /\ ~wk'[w].gated
                  \/ /\ cancelled
                     /\ wk'[w].pc = "mark"
                     /\ wk'[w].status = 0 /\ wk'[w].errMsg = CtxErr
                     /\ ~wk'[w].slotReleased /\ wk'[w].holds]_vars

\* C14 witness: the load is above max_load; one worker, having read it,
\* sleeps in waitForLoad past the first check interval; another, let through
\* while the load was lower, is about to repeat its GET.
C14_Witness ==
    /\ load = "high"
    /\ \E w \in DOMAIN wk : wk[w].pc = "load_sleep" /\ wk[w].wake > Seconds(CheckIntervalSecs)
    /\ \E w \in DOMAIN wk : wk[w].pc = "backoff" /\ wk[w].gated

\* C15: against an origin that answers 429 to finitely many requests and 200
\* to the others, with no cancellation, runOnce returns in the end, and when
\* it has every URL of the sitemaps is recorded once with last_status 200.
C15_Finite429AllWarmed ==
    /\ <>(rpc = "returned")
    /\ [](rpc = "returned" =>
            /\ DOMAIN warmed_url = DOMAIN wk
            /\ \A u \in DOMAIN wk : /\ warmed_url[u].last_status = 200
                               /\ warmed_url[u].last_error = BindString("")
                               /\ warmed_url[u].warmed_count = 1
            /\ \A w \in DOMAIN wk : wk[w].pc = "done")

\* C15 witness: runOnce has returned, the origin has answered 429 as often
\* as it may, and the cap is still lowered.
C15_Witness ==
    /\ rpc = "returned"
    /\ budget429 = 0
    /\ Max429 > 0
    /\ rl.currentConcurrency < rl.maxConcurrency
    /\ \A u \in DOMAIN wk : u \in DOMAIN warmed_url /\ warmed_url[u].last_status = 200

\* C17: once the signal has come runOnce returns in the end, and when it has
\* every goroutine it started is over, none waits in acquire or holds a
\* slot, and activeWorkers is 0.
C17_CancelDrainsPool ==
    /\ cancelled ~> rpc = "returned"
    /\ [](rpc = "returned" =>
            /\ \A w \in DOMAIN wk : wk[w].pc \in {"idle", "done"} /\ ~wk[w].holds
            /\ rl.activeWorkers = 0)

\* C17 witness: runOnce has returned after a signal that found a goroutine
\* started: a URL has the ctx error as its outcome.
C17_Witness ==
    /\ rpc = "returned"
    /\ cancelled
    /\ rl.activeWorkers = 0
    /\ \E w \in DOMAIN wk : wk[w].pc = "done" /\ wk[w].acquired
    /\ \E u \in DOMAIN warmed_url : warmed_url[u].last_error = BindString(CtxErr)

C19_MarkWarmedUpsert ==
    /\ [](IF lastOp.op = "MarkWarmed"
          THEN LET u == lastOp.url
               IN /\ warmed_url[u].last_status = lastOp.status
                  /\ warmed_url[u].last_warmed_utc = FormatRFC3339(lastOp.t)
                  /\ warmed_url[u].last_error = BindString(lastOp.errorMsg)
                  /\ DOMAIN warmed_url = DOMAIN lastOp.calls
                  /\ \A x \in DOMAIN warmed_url :
                        /\ warmed_url[x].warmed_count = lastOp.calls[x]
                        /\ warmed_url[x].warmed_count >= 1
          ELSE warmed_url = EmptyTable)
    /\ [][/\ \A x \in DOMAIN warmed_url :
               /\ x \in DOMAIN warmed_url'
               /\ \/ warmed_url'[x] = warmed_url[x]
                  \/ warmed_url'[x].warmed_count = warmed_url[x].warmed_count + 1
          /\ \A x \in DOMAIN warmed_url' \ DOMAIN warmed_url :
               warmed_url'[x].warmed_count = 1
          /\ lastOp' # lastOp =>
               \A x \in DOMAIN warmed_url \ {lastOp'.url} : warmed_url'[x] = warmed_url[x]
          /\ lastOp' = lastOp => warmed_url' = warmed_url]_vars

\* C19 witness: a URL marked twice, the second time with another outcome
\* at a later second, beside a URL marked once.
C19_Witness ==
    /\ lastOp.op = "MarkWarmed"
    /\ warmed_url[lastOp.url].warmed_count = 2
    /\ lastOp.status = 404
    /\ lastOp.t >= TicksPerSec
    /\ \E x \in DOMAIN warmed_url : x # lastOp.url /\ warmed_url[x].warmed_count = 1

\* C20: a goroutine comes to hold a slot only by a step taken when the
\* clock is not before cooldownUntil and activeWorkers is under
\* currentConcurrency, and that step adds exactly one to activeWorkers;
\* this holds of goroutines that waited before the cooldown was set too.
C20_AcquireAdmission ==
    [][\A w \in DOMAIN wk :
          (~wk[w].holds /\ wk'[w].holds)
          => /\ now >= rl.cooldownUntil
             /\ rl.activeWorkers < rl.currentConcurrency
             /\ rl'.activeWorkers = rl.activeWorkers + 1
             /\ wk[w].pc = "acquire"]_vars

\* C20 witness: the slot is free and a cooldown is in force; the goroutine
\* that waited for the slot since before the 429 sleeps in acquire, and the
\* one that got the 429 has not been let in again.
C20_Witness ==
    /\ rl.activeWorkers = 0
    /\ now < rl.cooldownUntil
    /\ \E w \in DOMAIN wk : /\ wk[w].pc = "acq_sleep"
                            /\ ~wk[w].acquired
                            /\ wk[w].wake = rl.cooldownUntil
    /\ \E w \in DOMAIN wk : wk[w].acquired /\ ~wk[w].holds /\ wk[w].pc # "done"

\* C21: consecutiveOK is 0 after newRateLimiter and after every on429; an
\* onSuccess that raises currentConcurrency leaves it 0 and any other
\* onSuccess adds one to it; acquire and release leave it as it was.
C21_StreakResets ==
    /\ rl.consecutiveOK >= 0
    /\ CASE lastOp.op = "none" -> rl.consecutiveOK = 0
         [] lastOp.op = "on429" -> rl.consecutiveOK = 0
         [] lastOp.op = "onSuccess" ->
               IF rl.currentConcurrency > lastOp.before.currentConcurrency
               THEN rl.consecutiveOK = 0
               ELSE rl.consecutiveOK = lastOp.before.consecutiveOK + 1
         [] lastOp.op \in {"acquire", "release"} ->
               rl.consecutiveOK = lastOp.before.consecutiveOK
         [] OTHER -> FALSE

\* C21 witness: an on429 has wiped a streak of successes that was under way.
C21_Witness ==
    /\ lastOp.op = "on429"
    /\ lastOp.before.consecutiveOK > 0
    /\ rl.consecutiveOK = 0

\* C22: a goroutine that gets a 429 calls on429 with the parsed Retry-After
\* while it holds its slot, then releases the slot, then sleeps retryAfter429
\* (or leaves on ctx.Done), then calls acquire again, and once let in issues
\* the GET of attempt 1 whatever attempts came before the 429; the attempts
\* are not counted across a 429.
C22_On429Sequence ==
    /\ [](\A w \in DOMAIN wk :
            /\ wk[w].pc = "release429" => wk[w].holds
            /\ wk[w].pc = "cool429" => ~wk[w].holds
            /\ wk[w].reacq => ~wk[w].holds /\ hist.n429[w] > 0
            /\ wk[w].pc \in {"get", "backoff"} => wk[w].attempt \in 1..(Retries + 1))
    /\ [][\A w \in DOMAIN wk :
            /\ wk'[w].pc = "release429" => wk[w].pc \in {"get", "release429"}
            /\ wk'[w].pc = "cool429" => wk[w].pc \in {"release429", "cool429"}
            /\ (wk[w].pc = "get" /\ wk'[w].pc = "release429")
               => /\ hist'.n429[w] = hist.n429[w] + 1
                  /\ rl'.consecutiveOK = 0
                  /\ rl'.currentConcurrency = Max(1, rl.currentConcurrency \div 2)
                  /\ rl'.cooldownUntil = now + Max(wk'[w].retryAfter429, Seconds(CooldownSecs))
                  /\ rl'.activeWorkers = rl.activeWorkers
            /\ (wk[w].pc = "release429" /\ wk'[w].pc = "cool429")
               => /\ rl'.activeWorkers = rl.activeWorkers - 1
                  /\ wk'[w].wake = now + wk[w].retryAfter429
            /\ (wk[w].pc = "cool429" /\ wk'[w].pc # "cool429")
               => \/ wk'[w].pc = "acquire" /\ wk'[w].reacq /\ now >= wk[w].wake
                  \/ cancelled /\ wk'[w].pc = "mark" /\ wk'[w].slotReleased
            /\ (wk[w].reacq /\ ~wk[w].holds /\ wk'[w].holds) => wk'[w].pc = "loop"
            /\ (wk[w].pc = "loop" /\ wk'[w].pc = "get")
               => /\ wk'[w].attempt = 1
                  /\ wk[w].holds
                  /\ hist'.gets[w] = hist.gets[w] + 1]_vars

\* C22 witness: a URL whose attempts were used up when the 429 came is at
\* attempt 1 again, with more than retries + 1 GETs issued for it.
C22_Witness ==
    \E w \in DOMAIN wk :
        /\ wk[w].pc = "get"
        /\ wk[w].attempt = 1
        /\ hist.n429[w] > 0
        /\ hist.gets[w] > Retries + 1

\* C23: a URL that has got no 429 has had at most retries + 1 GETs, one for
\* each attempt; no GET follows a 2xx/3xx answer; warmOne returns from a GET
\* either with (200, "") or from attempt retries + 1 with (status, "HTTP
\* <status>") after a status >= 400 and (0, message) after a failed Do or
\* body read, and that is what MarkWarmed records.
C23_RetryBudget ==
    /\ [](\A w \in DOMAIN wk :
            hist.n429[w] = 0 =>
               /\ hist.gets[w] <= Retries + 1
               /\ wk[w].pc \in {"get", "backoff"} => hist.gets[w] = wk[w].attempt)
    /\ [][\A w \in DOMAIN wk :
            /\ (wk[w].pc = "get" /\ wk'[w].pc = "mark")
               => \/ wk'[w].status = 200 /\ wk'[w].errMsg = ""
                  \/ /\ wk[w].attempt = Retries + 1
                     /\ \/ wk'[w].status = 404 /\ wk'[w].errMsg = "HTTP 404"
                        \/ wk'[w].status = 0 /\ wk'[w].errMsg = DoErr
            /\ (wk[w].pc = "get" /\ wk'[w].pc = "backoff") => wk[w].attempt < Retries + 1
            /\ wk[w].pc \in {"mark", "defer", "done"} => hist'.gets[w] = hist.gets[w]
            /\ (wk[w].pc = "mark" /\ wk'[w].pc = "defer")
               => /\ warmed_url'[w].last_status = wk[w].status
                  /\ warmed_url'[w].last_error = BindString(wk[w].errMsg)]_vars

\* C23 witness: a URL that got no 429 is recorded with the 404 of its last
\* attempt, after retries + 1 GETs; the other with 200 after fewer.
C23_Witness ==
    \E w, v \in DOMAIN wk :
        /\ wk[w].pc = "done" /\ wk[v].pc = "done"
        /\ hist.n429[w] = 0 /\ hist.n429[v] = 0
        /\ hist.gets[w] = Retries + 1
        /\ w \in DOMAIN warmed_url
        /\ warmed_url[w].last_status = 404
        /\ warmed_url[w].last_error = BindString("HTTP 404")
        /\ v \in DOMAIN warmed_url
        /\ warmed_url[v].last_status = 200
        /\ hist.gets[v] < Retries + 1

\* C24: no goroutine stays blocked in acquire's cond.Wait while the clock is
\* not before cooldownUntil and activeWorkers is under currentConcurrency:
\* every change that could let it in wakes it.
C24_NoAdmissibleWaiterBlocked ==
    \A w \in DOMAIN wk :
        wk[w].pc = "acq_wait" =>
            ~(now >= rl.cooldownUntil /\ rl.activeWorkers < rl.currentConcurrency)

\* C25: once ctx is cancelled, a goroutine blocked in acquire, sleeping out
\* the cooldown or waiting for a slot, can return the ctx error by a step of
\* its own, no other goroutine having to call the limiter first, and holds
\* no slot afterwards.
C25_AcquireCancellable ==
    \A w \in DOMAIN wk :
        (cancelled /\ wk[w].pc \in {"acq_sleep", "acq_wait"})
        => ENABLED (/\ WorkerStep(w) \/ Worker429Step(w)
                    /\ wk'[w].pc \notin {"acq_sleep", "acq_wait"}
                    /\ ~wk'[w].holds
                    /\ rl'.activeWorkers = rl.activeWorkers)

\* The places where a goroutine of the pool is suspended on a timer or on
\* the limiter.
Suspended == {"load_sleep", "backoff", "cool429", "acq_sleep", "acq_wait"}

\* C26: once ctx is cancelled, a goroutine suspended in the load-gate sleep,
\* the retry backoff, the 429 cooldown sleep or the limiter's sleep or wait
\* can leave it at once by a step of its own that returns from warmOne or
\* ends the goroutine, with no further GET issued.
C26_SuspensionsCancellable ==
    \A w \in DOMAIN wk :
        (cancelled /\ wk[w].pc \in Suspended)
        => ENABLED (/\ WorkerStep(w) \/ Worker429Step(w)
                    /\ wk'[w].pc \in {"mark", "done"}
                    /\ hist'.gets[w] = hist.gets[w])

\* The goroutine is in the acquire that runOnce calls before warmOne.
InInitialAcquire(r) == r.pc \in {"acquire", "acq_sleep", "acq_wait"} /\ ~r.reacq

\* The goroutine is inside warmOne and has not returned from it.
PastAcquisition(r) ==
    \/ r.pc \in {"loop", "load_sleep", "get", "backoff", "release429", "cool429"}
    \/ r.pc \in {"acquire", "acq_sleep", "acq_wait"} /\ r.reacq

\* C27: once the run is cancelled, a goroutine that leaves its initial acquire
\* ends with no MarkWarmed call and an unchanged table, and a goroutine that
\* returns from warmOne (from the load gate, the retry loop, the 429 cooldown
\* sleep or the 429 re-acquire) returns status 0 with a non-empty message;
\* what warmOne returned is recorded by exactly one MarkWarmed call.
C27_CancelOutcome ==
    [][\A w \in DOMAIN wk :
          /\ (cancelled /\ InInitialAcquire(wk[w]) /\ ~InInitialAcquire(wk'[w]))
                => /\ wk'[w].pc = "done"
                   /\ wk'[w].marks = 0
                   /\ warmed_url' = warmed_url
          /\ (cancelled /\ PastAcquisition(wk[w]) /\ wk'[w].pc = "mark")
                => /\ wk'[w].status = 0
                   /\ wk'[w].errMsg # ""
          /\ (wk[w].pc = "mark" /\ wk'[w].pc # "mark")
                => /\ wk[w].marks = 0
                   /\ wk'[w].marks = 1
                   /\ w \in DOMAIN warmed_url'
                   /\ warmed_url'[w].last_status = wk[w].status
                   /\ warmed_url'[w].last_error = BindString(wk[w].errMsg)
          /\ (wk[w].pc # "mark") => wk'[w].marks = wk[w].marks]_vars

\* C27 witness: the cancelled run has returned; one goroutine was still in its
\* initial acquire and left no record, the other was cancelled in the load
\* gate or after a 429 and left its one record, status 0 with the context's
\* message.
C27_Witness ==
    /\ cancelled
    /\ rpc = "returned"
    /\ \E w1, w2 \in DOMAIN wk :
          /\ wk[w1].pc = "done" /\ ~wk[w1].acquired /\ wk[w1].marks = 0
          /\ w1 \notin DOMAIN warmed_url
          /\ wk[w2].pc = "done" /\ wk[w2].acquired /\ wk[w2].marks = 1
          /\ warmed_url[w2].last_status = 0
          /\ warmed_url[w2].last_error = BindString(CtxErr)
          /\ warmed_url[w2].warmed_count = 1

\* C28: in every runOnce each sitemap URL is fetched at most once, however
\* often the graph lists it; c.seenSitemaps is empty when a runOnce starts, so
\* a runOnce that is not cancelled fetches each of its seeds once; and on
\* these graphs, cycles included, the collection comes to its end.
C28_CollectionTerminates ==
    /\ [](\A sm \in DOMAIN hist.fetches : hist.fetches[sm] <= 1)
    /\ [][(rpc = "start" /\ rpc' = "collect") => col'.seen = {}]_vars
    /\ []((rpc = "filter" /\ ~cancelled)
            => \A i \in DOMAIN col.cfgSeeds : hist.fetches[col.cfgSeeds[i]] = 1)
    /\ (rpc = "collect") ~> (rpc # "collect")

\* C28 witness: the second runOnce of a process has collected from the graph
\* whose sitemaps list each other and themselves, s2 being a seed as well as
\* a child: every sitemap was fetched once in this run.
C28_Witness ==
    /\ pass = 2
    /\ rpc = "filter"
    /\ ~cancelled
    /\ col.site = SiteCycle
    /\ col.cfgSeeds = <<"s0", "s2">>
    /\ \A sm \in SitemapNames : hist.fetches[sm] = 1
    /\ col.seen = SitemapNames

\* runOnce's loop over the seeds has ended and no collectURLsFromSitemap call
\* is open.
CollectionOver ==
    /\ rpc \notin {"start", "collect"}
    /\ col.pc = "done"
    /\ col.seeds = <<>>
    /\ col.stack = <<>>

\* C29: a goroutine stands anywhere from its acquire to its last statement,
\* or a limiter slot is taken, only when the collection from every seed, with
\* all nested children, is over.
C29_CollectBeforeWarm ==
    /\ \A w \in DOMAIN wk : wk[w].pc # "idle" => CollectionOver
    /\ rl.activeWorkers > 0 => CollectionOver

\* C29 witness: two seeds and the nested children were collected, and a
\* goroutine holding a slot is about to send its GET.
C29_Witness ==
    /\ CollectionOver
    /\ col.cfgSeeds = <<"s0", "s2">>
    /\ col.seen = {"s0", "s1", "s2"}
    /\ \E w \in DOMAIN wk : wk[w].pc = "get" /\ wk[w].holds
    /\ rl.activeWorkers > 0

\* Neither Unmarshal of parseSitemapXML accepts the payload.
FailsToParse(doc) == doc.root \notin {"sitemapindex", "urlset"}

\* C30: when collectURLsFromSitemap has fetched a payload that fails to parse,
\* the sitemap's record gets a non-empty last_error, and the call goes on with
\* no page URL and no child from that payload.
C30_ParseFailureRecorded ==
    [][\A sm \in DOMAIN col.site :
          (/\ col.pc = "fetch_get"
           /\ col'.pc = "children"
           /\ TopFrame(col).sm = sm
           /\ FailsToParse(col.site[sm]))
          => /\ sm \in DOMAIN sitemap_seen'
             /\ ~sitemap_seen'[sm].last_error.isNull
             /\ sitemap_seen'[sm].last_error.text # ""
             /\ TopFrame(col').collected = <<>>
             /\ TopFrame(col').children = <<>>]_vars

\* The sitemaps with a record of a good fetch.
FetchedOK == {sm \in DOMAIN sitemap_seen : sitemap_seen[sm].last_error = BindString("")}

\* The sitemaps a collection from S comes to when it follows the <sitemap>
\* entries of the sitemaps of ok only.
RECURSIVE VisitedFrom(_, _, _)
VisitedFrom(site, S, ok) ==
    LET next == S \cup {c \in DOMAIN site :
                          \E p \in S \cap ok :
                              c \in Range(parseSitemapXML(site[p]).childSitemaps)}
    IN IF next = S THEN S ELSE VisitedFrom(site, next, ok)

\* C31: a sitemap whose fetch has failed on all Retries + 1 attempts gets a
\* record with a non-empty error, and the collection goes on.  With no signal,
\* a finished collection has visited every seed and every child listed by a
\* sitemap that was fetched, has a non-empty error on each sitemap that was not
\* fetched, and has collected exactly the page URLs of the fetched sitemaps;
\* the run warms each of them once.
C31_FailedSitemapSkipped ==
    (/\ rpc \in {"filter", "spawn", "wait", "returned"}
     /\ ~cancelled)
    => LET want == PagesOf(col.site, FetchedOK)
       IN /\ DOMAIN sitemap_seen = VisitedFrom(col.site, Range(col.cfgSeeds), FetchedOK)
          /\ \A sm \in DOMAIN sitemap_seen \ FetchedOK :
                /\ ~sitemap_seen[sm].last_error.isNull
                /\ sitemap_seen[sm].last_error.text # ""
          /\ Range(col.all) = want
          /\ rpc = "returned" =>
                /\ DOMAIN warmed_url = want
                /\ \A u \in want : wk[u].marks = 1 /\ warmed_url[u].last_status = 200

\* C31 witness: the run over the seeds s0 and s2 has returned; the fetch of
\* the child s1 failed on both attempts, and the pages of s2, a sibling of s1
\* and a seed, are warmed.
C31_Witness ==
    /\ rpc = "returned"
    /\ ~cancelled
    /\ col.site = SiteNested
    /\ col.cfgSeeds = <<"s0", "s2">>
    /\ DOMAIN sitemap_seen = {"s0", "s1", "s2"}
    /\ FetchedOK = {"s0", "s2"}
    /\ sitemap_seen["s1"].last_error = BindString("HTTP 404")
    /\ DOMAIN warmed_url = {3, 4}

\* C32: MarkFlush(reason) writes the two keys as one: the statement that
\* stores the new last_flush_utc leaves last_flush_reason equal to the reason
\* of this call, and so does the return of the call, for the empty reason too.
C32_FlushAtomic ==
    [][/\ (flushPc = "idle" /\ flushPc' = "reason")
            => /\ "last_flush_reason" \in DOMAIN meta'
               /\ meta'["last_flush_reason"] = flushReason'
       /\ (flushPc = "reason" /\ flushPc' = "idle")
            => /\ "last_flush_reason" \in DOMAIN meta'
               /\ meta'["last_flush_reason"] = flushReason]_vars

\* C33: every record the goroutines write has an empty last_error exactly
\* when its last_status is in 200..399, has a non-empty error when its
\* last_status is 0, and has its last_status in 0..599.
C33_RecordWellFormed ==
    \A u \in DOMAIN warmed_url :
        /\ (warmed_url[u].last_error = BindString(""))
              <=> (/\ warmed_url[u].last_status >= httpStatusOK
                   /\ warmed_url[u].last_status <= httpStatusSuccessMax)
        /\ warmed_url[u].last_status = 0
              => /\ ~warmed_url[u].last_error.isNull
                 /\ warmed_url[u].last_error.text # ""
        /\ warmed_url[u].last_status \in 0..599

\* The goroutines that have been admitted and have not released since.
Holders == {w \in DOMAIN wk : wk[w].holds}

\* C34: activeWorkers is the number of goroutines holding a slot and is never
\* negative; at the deferred release the flag slotReleased is set exactly when
\* warmOne has given the slot back; every release takes one slot from a
\* goroutine that held one; and a goroutine that is over holds none.
C34_ReleaseMatchesAcquire ==
    /\ [](/\ rl.activeWorkers = Cardinality(Holders)
          /\ rl.activeWorkers >= 0
          /\ \A w \in DOMAIN wk :
                /\ wk[w].pc = "defer" => (wk[w].slotReleased <=> ~wk[w].holds)
                /\ wk[w].pc \in {"idle", "done"} => ~wk[w].holds)
    /\ [][rl'.activeWorkers < rl.activeWorkers
            => /\ rl'.activeWorkers = rl.activeWorkers - 1
               /\ \E w \in DOMAIN wk : wk[w].holds /\ ~wk'[w].holds]_vars

\* C34 witness: after the signal one goroutine, cancelled after its 429, is
\* at the deferred release with the slot already given back, while the other
\* still holds its slot.
C34_Witness ==
    /\ cancelled
    /\ \E w1, w2 \in DOMAIN wk :
          /\ wk[w1].pc = "defer" /\ wk[w1].slotReleased /\ ~wk[w1].holds
          /\ wk[w2].pc = "get" /\ wk[w2].holds
    /\ rl.activeWorkers = 1

\* C35: a goroutine is in warmOne's retry loop, where it sends its GETs, only
\* while it holds a slot; when its MarkWarmed has run it still holds the slot,
\* unless it was cancelled in the 429 cooldown or the re-acquire, where it has
\* released before and records (0, ctx error); and the release that ends a
\* goroutine comes after its record.
C35_AcquireWarmRecordRelease ==
    /\ [](\A w \in DOMAIN wk :
            /\ wk[w].pc \in {"loop", "load_sleep", "get", "backoff", "release429"}
                  => wk[w].holds /\ wk[w].marks = 0
            /\ wk[w].marks = 1 => wk[w].acquired)
    /\ [][\A w \in DOMAIN wk :
            /\ wk'[w].marks > wk[w].marks
                  => \/ wk'[w].holds
                     \/ /\ cancelled
                        /\ wk[w].slotReleased
                        /\ wk[w].status = 0
                        /\ wk[w].errMsg = CtxErr
            /\ (wk[w].holds /\ wk'[w].pc = "done") => wk[w].marks = 1]_vars

\* C35 witness: a goroutine that got a 429, released, acquired again and sent
\* its GET again has recorded its 200 and is at the deferred release, the
\* slot still held.
C35_Witness ==
    \E w \in DOMAIN wk :
        /\ wk[w].pc = "defer"
        /\ wk[w].holds
        /\ ~wk[w].slotReleased
        /\ wk[w].marks = 1
        /\ hist.n429[w] = 1
        /\ hist.gets[w] = 2
        /\ warmed_url[w].last_status = 200

\* C36: with every request answered, finitely many of them with 429, and
\* every goroutine scheduled, the run comes to rest with runOnce returned:
\* no slot is held, so any excess of activeWorkers over currentConcurrency
\* left by on429 has been worked off, and every goroutine is over with its
\* URL recorded as 200, so each was let in by every acquire it called, the
\* re-acquire after a 429 included.
C36_NoDeadlock ==
    <>[](/\ rpc = "returned"
         /\ rl.activeWorkers = 0
         /\ rl.activeWorkers <= rl.currentConcurrency
         /\ \A w \in 1..3 : /\ wk[w].pc = "done"
                            /\ wk[w].marks = 1
                            /\ warmed_url[w].last_status = 200)

\* C36 witness: two goroutines hold slots under a cap that a 429 lowered to
\* one, and the goroutine that got the 429 is blocked in cond.Wait.
C36_Witness ==
    /\ rl.activeWorkers > rl.currentConcurrency
    /\ \E w \in DOMAIN wk : wk[w].pc = "acq_wait" /\ wk[w].reacq
    /\ Cardinality({w \in DOMAIN wk : wk[w].holds}) = 2

\* C37: no on429 moves cooldownUntil to an earlier time.
C37_CooldownNeverShortened ==
    lastOp.op = "on429" => rl.cooldownUntil >= lastOp.before.cooldownUntil

\* C37 amended: every on429 replaces cooldownUntil by the time of the call
\* plus the larger of its hint and the configured cooldown, whatever cooldown
\* was in force: the new value is later than the call by at least the
\* configured cooldown, and it is earlier than the old one exactly when the
\* old cooldown reached beyond it.  acquire, release and onSuccess leave
\* cooldownUntil as it was.
C37_CooldownReplaced ==
    CASE lastOp.op = "on429" ->
            LET asked == lastOp.t + Max(lastOp.retryAfter, Seconds(rl.cooldownSeconds))
            IN /\ rl.cooldownUntil = asked
               /\ rl.cooldownUntil >= lastOp.t + Seconds(rl.cooldownSeconds)
               /\ (rl.cooldownUntil < lastOp.before.cooldownUntil)
                     <=> (lastOp.before.cooldownUntil > asked)
      [] lastOp.op \in {"acquire", "release", "onSuccess"} ->
            rl.cooldownUntil = lastOp.before.cooldownUntil
      [] OTHER -> TRUE

\* C37 witness: a 429 without a hint has come while the cooldown of a 429
\* with a longer hint was in force, and has cut it short.
C37_Witness ==
    /\ lastOp.op = "on429"
    /\ lastOp.hdr = HdrEmpty
    /\ lastOp.before.cooldownUntil > lastOp.t
    /\ rl.cooldownUntil < lastOp.before.cooldownUntil
    /\ rl.cooldownUntil = lastOp.t + Seconds(CooldownSecs)

\* C38: the staleness filter does not look at the recorded outcome, so with
\* no flush at all a later run issues no GET for a URL whose latest record is
\* a failure (status 0 or >= 400) written less than the rewarm interval ago.
C38_FailureNotRetriedEarly ==
    (hist.on /\ pass >= 2 /\ hist.flushPass = -1 /\ flushedAt = NoTime)
    => \A w \in DOMAIN wk :
          (/\ wk[w].pc = "get"
           /\ w \in DOMAIN hist.markedAt
           /\ w \in DOMAIN warmed_url
           /\ \/ warmed_url[w].last_status = 0
              \/ warmed_url[w].last_status >= httpStatusClientErr)
          => now - hist.markedAt[w] >= RewarmAfter

\* C39 as stated: in a run in which no page GET is answered with 429 the
\* limiter is the counting semaphore of capacity http.concurrency: the cap
\* stays at the configured concurrency, cooldownUntil is never set, a
\* goroutine arriving at acquire is admitted exactly when the semaphore's send
\* would go through and blocks otherwise, a blocked goroutine never faces a
\* free slot, and the deferred release takes one token back.
C39_SemaphoreEquivalent ==
    /\ [](/\ rl.currentConcurrency = rl.maxConcurrency
          /\ rl.cooldownUntil = 0
          /\ rl.activeWorkers = Cardinality(Holders)
          /\ \A w \in DOMAIN wk :
                wk[w].pc = "acq_wait" =>
                    ~SemSend(rl.activeWorkers, rl.maxConcurrency).ok)
    /\ [][\A w \in DOMAIN wk :
            /\ (wk[w].pc = "acquire" /\ wk'[w].pc # "acquire") =>
                  LET s == SemSend(rl.activeWorkers, rl.maxConcurrency) IN
                  /\ rl'.activeWorkers = s.len
                  /\ wk'[w].holds = s.ok
                  /\ wk'[w].pc = IF s.ok THEN "loop" ELSE "acq_wait"
            /\ (wk[w].pc = "defer" /\ wk'[w].pc # "defer") =>
                  /\ wk[w].holds /\ ~wk'[w].holds
                  /\ rl'.activeWorkers = SemRecv(rl.activeWorkers)]_vars

\* C39, amended: the same equivalence for every acquire made before the
\* signal handler has cancelled the context; after it, acquire refuses the
\* goroutine whatever the semaphore would do, the count of holders stays and
\* the goroutine ends without a record.
C39_SemaphoreEquivalentUntilCancel ==
    /\ [](/\ rl.currentConcurrency = rl.maxConcurrency
          /\ rl.cooldownUntil = 0
          /\ rl.activeWorkers = Cardinality(Holders)
          /\ \A w \in DOMAIN wk :
                wk[w].pc = "acq_wait" =>
                    ~SemSend(rl.activeWorkers, rl.maxConcurrency).ok)
    /\ [][\A w \in DOMAIN wk :
            /\ (wk[w].pc = "acquire" /\ wk'[w].pc # "acquire" /\ ~cancelled) =>
                  LET s == SemSend(rl.activeWorkers, rl.maxConcurrency) IN
                  /\ rl'.activeWorkers = s.len
                  /\ wk'[w].holds = s.ok
                  /\ wk'[w].pc = IF s.ok THEN "loop" ELSE "acq_wait"
            /\ (wk[w].pc = "acquire" /\ wk'[w].pc # "acquire" /\ cancelled) =>
                  /\ rl'.activeWorkers = rl.activeWorkers
                  /\ ~wk'[w].holds
                  /\ wk'[w].pc = "done"
                  /\ wk'[w].marks = 0
            /\ (wk[w].pc = "defer" /\ wk'[w].pc # "defer") =>
                  /\ wk[w].holds /\ ~wk'[w].holds
                  /\ rl'.activeWorkers = SemRecv(rl.activeWorkers)]_vars

\* Two goroutines hold the two slots, the third is blocked in acquire, and
\* no page GET has been answered with 429.
C39_Witness ==
    /\ budget429 = 0
    /\ ~cancelled
    /\ rl.activeWorkers = rl.maxConcurrency
    /\ Cardinality(Holders) = 2
    /\ \E w \in DOMAIN wk : wk[w].pc = "acq_wait" /\ wk[w].acquired = FALSE
    /\ \E w \in DOMAIN wk : wk[w].pc = "mark" /\ wk[w].status = 200

\* C7: whenever no worker stands between its on429 call and its release of
\* the slot, active_workers <= current_concurrency.
C7_ActiveWithinCap ==
    (\A w \in DOMAIN wk : wk[w].pc # "release429")
    => rl.activeWorkers <= rl.currentConcurrency

\* C8: at every instant at most current_concurrency workers have a page GET
\* in flight.
C8_GetPhaseWithinCap ==
    Cardinality({w \in DOMAIN wk : wk[w].pc = "get"}) <= rl.currentConcurrency

----------------------------------------------------------------------------
(* Claims about the rate limiter *)

\* floor(c / 2) for c >= 0, by its defining inequality
FloorHalf(c) == CHOOSE k \in 0..c : 2 * k <= c /\ c < 2 * k + 2

\* 2^k
RECURSIVE Pow2(_)
Pow2(k) == IF k = 0 THEN 1 ELSE 2 * Pow2(k - 1)

\* C9: each on_429 sets current_concurrency to max(1, floor(cc / 2)); always
\* 1 <= current_concurrency <= configured concurrency; k on_429 calls in a row
\* leave it at most max(1, configured / 2^k), so repeated calls reach exactly 1.
C9_HalvingFlooredAtOne ==
    /\ rl.currentConcurrency >= 1
    /\ rl.currentConcurrency <= rl.maxConcurrency
    /\ lastOp.op = "on429" =>
          /\ rl.currentConcurrency = Max(1, FloorHalf(lastOp.before.currentConcurrency))
          /\ rl.currentConcurrency <= Max(1, rl.maxConcurrency \div Pow2(lastOp.streak))
          /\ Pow2(lastOp.streak) >= rl.maxConcurrency => rl.currentConcurrency = 1

\* C9 witness: an on_429 on a limiter already at 1 leaves it at 1.
C9_Witness ==
    /\ lastOp.op = "on429"
    /\ lastOp.before.currentConcurrency = 1
    /\ rl.currentConcurrency = 1
    /\ lastOp.streak >= 2

Min(a, b) == IF a <= b THEN a ELSE b

\* C11: onSuccess adds one to consecutive_ok, and exactly when that reaches
\* recover_after with current_concurrency < max_concurrency it raises
\* current_concurrency by one and resets consecutive_ok; so, s successes after
\* a 429 left the cap at c, current_concurrency = min(max, c + s / recover_after):
\* it is back at max_concurrency after exactly (max - c) * recover_after
\* successes and never above it.
C11_RecoveryAdditive ==
    /\ rl.currentConcurrency <= rl.maxConcurrency
    /\ lastOp.op = "onSuccess" =>
          LET b == lastOp.before IN
          IF b.consecutiveOK + 1 = b.recoverAfter
                /\ b.currentConcurrency < b.maxConcurrency
          THEN rl = [b EXCEPT !.currentConcurrency = @ + 1, !.consecutiveOK = 0]
          ELSE rl = [b EXCEPT !.consecutiveOK = @ + 1]
    /\ "oks" \in DOMAIN lastOp =>
          /\ rl.currentConcurrency =
                Min(rl.maxConcurrency, lastOp.base + lastOp.oks \div rl.recoverAfter)
          /\ rl.currentConcurrency = rl.maxConcurrency
                <=> lastOp.oks >= (rl.maxConcurrency - lastOp.base) * rl.recoverAfter

\* C11 witness: the success that brings the cap back to max_concurrency from
\* two or more below it.
C11_Witness ==
    /\ lastOp.op = "onSuccess"
    /\ "oks" \in DOMAIN lastOp
    /\ rl.maxConcurrency - lastOp.base >= 2
    /\ lastOp.oks = (rl.maxConcurrency - lastOp.base) * rl.recoverAfter
    /\ lastOp.before.currentConcurrency = rl.maxConcurrency - 1
    /\ rl.currentConcurrency = rl.maxConcurrency

\* The hint h of a Retry-After header read at clock reading t: the seconds of
\* a non-negative integer, the time until a date still ahead, else the
\* configured cooldown.
C10_Hint(hdr, t) ==
    IF hdr.kind = "int" /\ hdr.n >= 0 THEN hdr.n * TicksPerSec
    ELSE IF hdr.kind = "date" /\ hdr.n * TicksPerSec > t THEN hdr.n * TicksPerSec - t
    ELSE CooldownSecs * TicksPerSec

====
